---- MODULE Spec2Model ----
(***************************************************************************)
(* A model of the 3GM decoder: the surface table (SurfaceGenerator), the   *)
(* process-wide error flag (ErrorHandler), the chunk scanner (ChunkReader),*)
(* the dispatcher (Parser3GM) and the vertex chunk decoders.               *)
(* C++ containers are modelled as functions over 0..n-1 so that indices    *)
(* are the ones the code uses.                                             *)
(***************************************************************************)
EXTENDS Integers, Sequences, FiniteSets, TLC

VARIABLES
    gens,                  \* session -> SurfaceGenerator object
    g_lastProcessedEvent,  \* ErrorHandler::g_lastProcessedEvent (process-wide)
    last,                  \* the last call made: operation, arguments, result, events posted
    calls,                 \* number of operations made so far (in the runs that count them)
    plan,                  \* how the capacity run picks its fresh keys
    parser,                \* the Parser3GM object
    g_primitiveFlags,      \* GlobalVariables::g_primitiveFlags (process-wide)
    lineProcessor,         \* a LineProcessor object
    animationSystem        \* an AnimationSystem object

\* the state of the chunk decoders that are called directly
chunkVars == <<g_primitiveFlags, lineProcessor, animationSystem>>

vars == <<gens, g_lastProcessedEvent, last, calls, plan, parser, chunkVars>>

(***************************************************************************)
(* Bounds of the model and program constants.                              *)
(***************************************************************************)
MaxTexturesArg == 2        \* max_textures handed to Initialize in the small runs
MaxSurfacesArg == 3        \* max_surfaces handed to Initialize in the small runs
MaxFlag == 1               \* flags range over 0..MaxFlag
CapacityCalls == 2003      \* calls made by the capacity run
FillFar == 1900            \* the capacity run makes its first calls in one go,
FillNear == 1990           \* this many of them
FillSizes == {FillFar, FillNear}
SessionSteps == 5          \* operations made in a run of two sessions
ParserSteps == 3           \* operations made on a parser in a run

DefaultMaxTextures == 1000
DefaultMaxSurfaces == 2000
NotFound == 65535          \* 0xFFFF
TriangleStrip == 16646
QuadStripInput == 18189
QuadStrip == 18190
TriangleList == 20486
PointSprite == 21251
LineStrip == 28422
LineStripAlt == 28423
ComplexPrimitive == 30733
EndMarker == 24576         \* 0x6000
Terminator == 65534        \* 0xFFFE

Dot2Id == 846491460         \* 0x32746f44 "Dot2"
FDotId == 1953449030        \* 0x746f4446 "FDot"
PrimId == 1835627088        \* 0x6d697250 "Prim"
LineId == 1701734732        \* 0x656e694c "Line"
SoPFId == 1179676531        \* 0x46506f73 "soPF"
FPosId == 1936674886        \* 0x736f5046 "FPos"
TxNmId == 1833859156        \* 0x6d4e7854 "TxNm"
EndId == 543452741          \* 0x20646e45 "End "
Magic3DGM == 1296516147     \* 0x4D474433 "3DGM"
VersionMin == 16777472      \* 0x01000100
VersionMax == 268435712     \* 0x10000100
Version3 == 50331904        \* 0x03000100, the version of a sample file
VertexTerminator == 2143289344  \* 0x7FC00000, the bits of the quiet NaN
UnknownId == 1482184792     \* 0x58585858 "XXXX", an id outside the table

EvNullPointer == 106       \* 0x6A
EvSystemNotInit == 100     \* 0x64
EvSurfaceNotReady == 2400  \* 0x960
EvInvalidTexture == 800
EvSurfaceLimit == 2402
EvSurfaceAlreadyAlloc == 2403
EvSurfaceNotAllocated == 2404

Sessions == {"A", "B"}

(***************************************************************************)
(* ErrorHandler.  A machine state m carries the generator being operated   *)
(* on, the process-wide error flag and the events posted during the call.  *)
(***************************************************************************)
PostEvent(m, code) ==
    [m EXCEPT !.err = TRUE, !.posted = Append(@, code)]

\* ProcessEvent: <<machine, returned bool>>
ProcessEvent(m, code) ==
    IF code \in {EvNullPointer, EvSystemNotInit}
    THEN <<[m EXCEPT !.err = TRUE], FALSE>>
    ELSE <<m, TRUE>>

HasLastError(m) == m.err

ClearError(m) == [m EXCEPT !.err = FALSE]

(***************************************************************************)
(* SurfaceTableEntry and SurfaceHashEntry.                                 *)
(***************************************************************************)
SurfaceTableEntry == [textureID |-> -1, primitiveType |-> 0, flags |-> 0, status |-> 0]

IsActive(e) == e.status % 2 = 1

SetActive(e, active) ==
    IF active THEN [e EXCEPT !.status = IF @ % 2 = 1 THEN @ ELSE @ + 1]
              ELSE [e EXCEPT !.status = IF @ % 2 = 1 THEN @ - 1 ELSE @]

HasAlpha(e) == (e.status \div 2) % 2 = 1

SetAlpha(e, alpha) ==
    IF alpha THEN [e EXCEPT !.status = IF (@ \div 2) % 2 = 1 THEN @ ELSE @ + 2]
             ELSE [e EXCEPT !.status = IF (@ \div 2) % 2 = 1 THEN @ - 2 ELSE @]

SurfaceHashEntry == [searchKey |-> 0, surfaceID |-> 0, nextEntry |-> -1]

GetSearchKey(primitiveType, flags) == primitiveType * 65536 + flags

(***************************************************************************)
(* SurfaceGenerator.                                                       *)
(***************************************************************************)
\* the object after its constructor: empty vectors, default limits
NewSurfaceGenerator ==
    [maxTextures |-> DefaultMaxTextures, maxSurfaces |-> DefaultMaxSurfaces,
     systemInitialized |-> FALSE,
     nextSurfaceID |-> 1, nextHashEntry |-> 0,
     textureHashTable |-> <<>>, hashCollisionData |-> <<>>, surfaceTable |-> <<>>,
     oobFirst |-> -1,      \* what was last stored past the end of textureHashTable_
     crashed |-> FALSE,    \* the process died on an access outside a vector's storage
     hung |-> FALSE]       \* a chain walk entered a cycle and never returns

IsValidTextureID(g, textureID) == textureID >= -1 /\ textureID < g.maxTextures

IsValidSurfaceID(g, surfaceID) == surfaceID > 0 /\ surfaceID < g.maxSurfaces

\* textureHashTable_.resize(maxTextures, -1): maxTextures slots, indices 0..maxTextures-1
FirstTableSize(maxTextures) == maxTextures

InitializeSurface(g, surfaceID) ==
    IF ~IsValidSurfaceID(g, surfaceID) THEN g
    ELSE [g EXCEPT !.surfaceTable[surfaceID] =
              [@ EXCEPT !.textureID = -1, !.primitiveType = 0, !.flags = 0,
                        !.status = IF (@ \div 2) % 2 = 1 THEN @ - 2 ELSE @]]

Initialize(g, maxTextures, maxSurfaces) ==
    [g EXCEPT !.maxTextures = maxTextures, !.maxSurfaces = maxSurfaces,
              !.textureHashTable = [i \in 0 .. FirstTableSize(maxTextures) - 1 |-> -1],
              !.hashCollisionData = [i \in 0 .. 2 * maxSurfaces - 1 |-> SurfaceHashEntry],
              !.surfaceTable = [i \in 0 .. maxSurfaces - 1 |-> SurfaceTableEntry],
              !.systemInitialized = TRUE,
              !.nextSurfaceID = 1, !.nextHashEntry = 0,
              !.oobFirst = -1]

\* The slot textureID+1 of the first-entry table.  A slot past the end of the
\* vector is undefined behaviour: the read yields oobv, a value chosen by the
\* caller among the outcomes of reading the memory behind the vector.
FirstEntry(g, textureID, oobv) ==
    IF textureID + 1 \in DOMAIN g.textureHashTable
    THEN g.textureHashTable[textureID + 1]
    ELSE oobv

OobReadValues(g) == {-1, 0, g.oobFirst}

Crash == -2                \* marker: the access left the vector's storage

Hang == -3                 \* marker: the loop never ends

Crashed(m) == [m EXCEPT !.g.crashed = TRUE]

Hung(m) == [m EXCEPT !.g.hung = TRUE]

Stopped(g) == g.crashed \/ g.hung

RECURSIVE ChainWalk(_, _, _, _)
\* walk of the collision chain from entry e: the entry holding searchKey, or -1.
\* A walk longer than the pool has entries has entered a cycle.
ChainWalk(g, e, searchKey, fuel) ==
    IF e \notin DOMAIN g.hashCollisionData THEN Crash
    ELSE IF g.hashCollisionData[e].searchKey = searchKey THEN e
    ELSE IF g.hashCollisionData[e].nextEntry = -1 THEN -1
    ELSE IF fuel = 0 THEN Hang
    ELSE ChainWalk(g, g.hashCollisionData[e].nextEntry, searchKey, fuel - 1)

PoolSize(g) == Cardinality(DOMAIN g.hashCollisionData)

ChainFind(g, e, searchKey) == ChainWalk(g, e, searchKey, PoolSize(g))

\* GetSurfaceHash: <<machine, returned surface id>>
GetSurfaceHash(m, primitiveType, textureID, flags, oobv) ==
    IF textureID >= m.g.maxTextures \/ textureID < -1
    THEN <<PostEvent(m, EvInvalidTexture), NotFound>>
    ELSE LET pe == IF ~m.g.systemInitialized
                   THEN ProcessEvent(m, EvSurfaceNotReady) ELSE <<m, TRUE>>
             hashEntry == FirstEntry(m.g, textureID, oobv)
         IN  IF ~pe[2] THEN <<pe[1], NotFound>>
             ELSE IF hashEntry = -1 THEN <<pe[1], NotFound>>
             ELSE LET e == ChainFind(m.g, hashEntry, GetSearchKey(primitiveType, flags))
                  IN  IF e = Crash THEN <<Crashed(pe[1]), NotFound>>
                      ELSE IF e = Hang THEN <<Hung(pe[1]), NotFound>>
                      ELSE IF e = -1 THEN <<pe[1], NotFound>>
                      ELSE <<pe[1], m.g.hashCollisionData[e].surfaceID>>

GetNewSurfaceOffByOne(m) ==
    IF m.g.nextSurfaceID > m.g.maxSurfaces
    THEN <<PostEvent(m, EvSurfaceLimit), 0>>
    ELSE LET newSurfaceID == m.g.nextSurfaceID
             m1 == [m EXCEPT !.g.nextSurfaceID = @ + 1]
         IN  IF newSurfaceID \notin DOMAIN m.g.surfaceTable
             THEN <<Crashed(m1), 0>>
             ELSE IF IsActive(m.g.surfaceTable[newSurfaceID])
             THEN <<PostEvent(m1, EvSurfaceAlreadyAlloc), 0>>
             ELSE <<[m1 EXCEPT !.g = InitializeSurface(
                                   [m1.g EXCEPT !.surfaceTable[newSurfaceID] = SetActive(@, TRUE)],
                                   newSurfaceID)],
                    newSurfaceID>>

\* GetNewSurface: <<machine, returned surface id>>
GetNewSurface(m) ==
    IF m.g.nextSurfaceID >= m.g.maxSurfaces
    THEN <<PostEvent(m, EvSurfaceLimit), 0>>
    ELSE LET newSurfaceID == m.g.nextSurfaceID
             m1 == [m EXCEPT !.g.nextSurfaceID = @ + 1]
         IN  IF newSurfaceID \notin DOMAIN m.g.surfaceTable
             THEN <<Crashed(m1), 0>>
             ELSE IF IsActive(m.g.surfaceTable[newSurfaceID])
             THEN <<PostEvent(m1, EvSurfaceAlreadyAlloc), 0>>
             ELSE <<[m1 EXCEPT !.g = InitializeSurface(
                                   [m1.g EXCEPT !.surfaceTable[newSurfaceID] = SetActive(@, TRUE)],
                                   newSurfaceID)],
                    newSurfaceID>>

\* UpdateSurfaceAlphaFlag: <<machine, returned bool>>
UpdateSurfaceAlphaFlag(m, surfaceID) ==
    IF ~IsValidSurfaceID(m.g, surfaceID) \/ ~IsActive(m.g.surfaceTable[surfaceID])
    THEN <<PostEvent(m, EvSurfaceNotAllocated), FALSE>>
    ELSE <<[m EXCEPT !.g.surfaceTable[surfaceID] =
                SetAlpha(@, @.primitiveType = TriangleStrip)], TRUE>>

\* SetSurfaceInfo: <<machine, returned bool>>
SetSurfaceInfo(m, surfaceID, primitiveType, textureID, flags) ==
    IF ~IsValidSurfaceID(m.g, surfaceID)
    THEN <<PostEvent(m, EvSurfaceLimit), FALSE>>
    ELSE IF ~IsActive(m.g.surfaceTable[surfaceID])
    THEN <<PostEvent(m, EvSurfaceNotAllocated), FALSE>>
    ELSE UpdateSurfaceAlphaFlag(
             [m EXCEPT !.g.surfaceTable[surfaceID] =
                 [@ EXCEPT !.primitiveType = primitiveType, !.textureID = textureID,
                           !.flags = flags]],
             surfaceID)

RECURSIVE FirstFree(_, _, _)
\* the first index in i..hi whose entry is unused (surfaceID == 0), or -1
FirstFree(g, i, hi) ==
    IF i > hi THEN -1
    ELSE IF g.hashCollisionData[i].surfaceID = 0 THEN i
    ELSE FirstFree(g, i + 1, hi)

\* FindFreeHashEntry: <<generator, index>>: the first unused entry at or after
\* nextHashEntry_, else the first one before it, else 0xFFFF
FindFreeHashEntry(g) ==
    LET a == FirstFree(g, g.nextHashEntry, PoolSize(g) - 1)
        b == FirstFree(g, 0, g.nextHashEntry - 1)
    IN  IF a # -1 THEN <<[g EXCEPT !.nextHashEntry = a + 1], a>>
        ELSE IF b # -1 THEN <<[g EXCEPT !.nextHashEntry = b + 1], b>>
        ELSE <<g, NotFound>>

\* AddSurfaceHash: <<machine, returned bool>>
AddSurfaceHash(m, surfaceID, oobv) ==
    IF ~IsValidSurfaceID(m.g, surfaceID) THEN <<m, FALSE>>
    ELSE LET surface == m.g.surfaceTable[surfaceID]
             textureID == surface.textureID
             f == FindFreeHashEntry(m.g)
             hashEntryIndex == f[2]
             currentFirst == FirstEntry(m.g, textureID, oobv)
             g1 == [f[1] EXCEPT !.hashCollisionData[hashEntryIndex] =
                       [searchKey |-> GetSearchKey(surface.primitiveType, surface.flags),
                        surfaceID |-> surfaceID,
                        nextEntry |-> currentFirst]]
         IN  IF ~IsValidTextureID(m.g, textureID) THEN <<m, FALSE>>
             ELSE IF hashEntryIndex = NotFound
             THEN <<PostEvent([m EXCEPT !.g = f[1]], EvNullPointer), FALSE>>
             ELSE IF textureID + 1 \in DOMAIN g1.textureHashTable
             THEN <<[m EXCEPT !.g = [g1 EXCEPT !.textureHashTable[textureID + 1] = hashEntryIndex]],
                    TRUE>>
             ELSE <<[m EXCEPT !.g = [g1 EXCEPT !.oobFirst = hashEntryIndex]], TRUE>>

\* GetOrCreateSurface: <<machine, returned surface id>>
GetOrCreateSurface(m, primitiveType, textureID, flags, oobv) ==
    LET pe == IF ~m.g.systemInitialized
              THEN ProcessEvent(m, EvSurfaceNotReady) ELSE <<m, TRUE>>
        r1 == GetSurfaceHash(pe[1], primitiveType, textureID, flags, oobv)
        r2 == GetNewSurface(r1[1])
        r3 == SetSurfaceInfo(r2[1], r2[2], primitiveType, textureID, flags)
        r4 == AddSurfaceHash(r3[1], r2[2], oobv)
        r5 == UpdateSurfaceAlphaFlag(r1[1], r1[2])
    IN  IF ~pe[2] THEN <<pe[1], 0>>
        ELSE IF Stopped(r1[1].g) THEN <<r1[1], 0>>
        ELSE IF r1[2] = NotFound
        THEN IF Stopped(r2[1].g) \/ HasLastError(r2[1]) THEN <<r2[1], 0>>
             ELSE IF ~r3[2] THEN <<r3[1], 0>>
             ELSE IF ~r4[2] THEN <<r4[1], 0>>
             ELSE <<r4[1], r2[2]>>
        ELSE IF ~r5[2] THEN <<r5[1], 0>>
        ELSE <<r5[1], r1[2]>>

Cleanup(g) ==
    [g EXCEPT !.textureHashTable = <<>>, !.hashCollisionData = <<>>,
              !.surfaceTable = <<>>, !.systemInitialized = FALSE]

(***************************************************************************)
(* Bytes, words and buffers.  A buffer is a sequence of bytes; offsets     *)
(* count from 0 as in the code.  The bytes of the files of this model are  *)
(* all below 128, so every 32-bit word read from them is below 2^31, and   *)
(* their sizes are far below the 2^32 - 8 at which 8 + size wraps.         *)
(***************************************************************************)
LE32(n) == <<n % 256, (n \div 256) % 256, (n \div 65536) % 256, (n \div 16777216) % 256>>

RECURSIVE Flatten(_)
Flatten(chunks) ==
    IF chunks = <<>> THEN <<>>
    ELSE LE32(Head(chunks).id) \o LE32(Head(chunks).size) \o Head(chunks).payload
         \o Flatten(Tail(chunks))

Dot2Params == <<1, 2, 3, 4, 5, 6, 7, 8>>
FDotParams == Dot2Params \o Dot2Params \o Dot2Params

Dot2One == [id |-> Dot2Id, size |-> 20, payload |-> Dot2Params \o LE32(1) \o LE32(2) \o LE32(3)]
FDotOne == [id |-> FDotId, size |-> 30, payload |-> FDotParams \o <<1, 0, 2, 0, 3, 0>>]
FDotBad == [id |-> FDotId, size |-> 0, payload |-> <<>>]
FDotOverrun == [id |-> FDotId, size |-> 100, payload |-> <<1, 2, 3, 4>>]
UnknownChunk == [id |-> UnknownId, size |-> 4, payload |-> <<9, 9, 9, 9>>]
EndChunk == [id |-> EndId, size |-> 0, payload |-> <<>>]
\* size fields 0xFFFFFFF9 and 0xFFFFFFF8
Dot2Wrap == [id |-> Dot2Id, size |-> -7, payload |-> Dot2Params]
Dot2Spin == [id |-> Dot2Id, size |-> -8, payload |-> Dot2Params]

Trail12 == Dot2Params \o LE32(4)
Trail20 == Dot2Params \o LE32(4) \o LE32(5) \o LE32(6)
Trail30 == FDotParams \o <<4, 0, 5, 0, 6, 0>>

\* the files: bytes before the chunks, the chunks, bytes after them
FileNames ==
    {"null", "tiny", "plain", "trail", "short", "unknown", "overrun", "badfdot",
     "fdot", "full", "version", "wrap", "spin", "stub"}

FileParts(f) ==
    CASE f = "plain"    -> [head |-> <<>>, chunks |-> <<Dot2One, EndChunk>>, trail |-> <<>>]
      [] f = "trail"    -> [head |-> <<>>, chunks |-> <<Dot2One, EndChunk>>, trail |-> Trail20]
      [] f = "short"    -> [head |-> <<>>, chunks |-> <<Dot2One, EndChunk>>, trail |-> Trail12]
      [] f = "unknown"  -> [head |-> <<>>, chunks |-> <<Dot2One, UnknownChunk, EndChunk>>,
                            trail |-> Trail20]
      [] f = "overrun"  -> [head |-> <<>>, chunks |-> <<Dot2One, FDotOverrun>>, trail |-> <<>>]
      [] f = "badfdot"  -> [head |-> <<>>, chunks |-> <<Dot2One, FDotBad, EndChunk>>,
                            trail |-> Trail20]
      [] f = "fdot"     -> [head |-> <<>>, chunks |-> <<FDotOne, EndChunk>>, trail |-> Trail30]
      [] f = "full"     -> [head |-> LE32(Magic3DGM) \o LE32(Version3) \o LE32(0),
                            chunks |-> <<Dot2One, EndChunk>>, trail |-> Trail20]
      [] f = "version"  -> [head |-> LE32(Version3), chunks |-> <<EndChunk>>, trail |-> <<>>]
      [] f = "wrap"     -> [head |-> <<>>, chunks |-> <<Dot2Wrap>>, trail |-> <<>>]
      [] f = "spin"     -> [head |-> <<>>, chunks |-> <<Dot2Spin>>, trail |-> <<>>]
      [] f = "stub"     -> [head |-> LE32(Magic3DGM) \o LE32(Version3), chunks |-> <<>>,
                            trail |-> <<>>]
      [] f = "tiny"     -> [head |-> <<1, 2, 3, 4>>, chunks |-> <<>>, trail |-> <<>>]
      [] OTHER          -> [head |-> <<>>, chunks |-> <<>>, trail |-> <<>>]

\* 16-bit tokens as bytes, low byte first and high byte first
RECURSIVE LE16s(_)
LE16s(tokens) ==
    IF tokens = <<>> THEN <<>>
    ELSE <<Head(tokens) % 256, Head(tokens) \div 256>> \o LE16s(Tail(tokens))

RECURSIVE BE16s(_)
BE16s(tokens) ==
    IF tokens = <<>> THEN <<>>
    ELSE <<Head(tokens) \div 256, Head(tokens) % 256>> \o BE16s(Tail(tokens))

\* chunk payloads handed to a decoder directly
PrimPayloads == {"primEnd", "primStrip", "primStrip5", "primUnknown", "primCut",
                 "primComplex", "primQuad", "primOdd"}
Dot2Payloads == {"dot2Zero", "dot2One"}
LinePayloads == {"lineQuad", "lineStrip", "lineEnd", "lineZero", "lineTwo", "lineShort"}
SoPFPayloads == {"sopfOk", "sopfEmpty", "sopfShort", "sopfWrap", "sopfTiny"}
FPosPayloads == {"fposOk", "fposMismatch", "fposOver", "fposWrap", "fposTiny"}
\* inputs of the vertex codecs called directly: packed words, and a block of
\* 24 parameter bytes followed by 6-byte triples
PackedInputs == {"packOne", "packTwo", "packThree"}
CrunchedInputs == {"crunchOne", "crunchTwo", "crunchThree"}

PayloadNames ==
    PrimPayloads \cup Dot2Payloads \cup LinePayloads \cup SoPFPayloads \cup FPosPayloads
        \cup PackedInputs \cup CrunchedInputs

Payload(f) ==
    CASE f = "primEnd"      -> LE16s(<<24576>>)
      [] f = "primStrip"    -> LE16s(<<16646, 4, 0, 1, 2, 3, 24576>>)
      [] f = "primStrip5"   -> LE16s(<<16646, 5, 7, 8, 9, 10, 11, 24576>>)
      [] f = "primUnknown"  -> LE16s(<<4660, 3, 0, 1, 2, 24576>>)
      [] f = "primCut"      -> LE16s(<<16646, 4, 0, 1>>)
      [] f = "primComplex"  -> LE16s(<<30733, 1, 2, 3>>)
      [] f = "primQuad"     -> LE16s(<<18189, 4, 0, 1, 2, 3, 24576>>)
      [] f = "primOdd"      -> <<0, 96, 0>>
      [] f = "dot2Zero"     -> Dot2Params
      [] f = "dot2One"      -> Dot2One.payload
      [] f = "lineQuad"     -> BE16s(<<18189, 3, 10, 11, 12, 24576, 28672>>)
      [] f = "lineStrip"    -> BE16s(<<28422, 2, 10, 11, 24576, 28672>>)
      [] f = "lineEnd"      -> BE16s(<<24576, 28672>>)
      [] f = "lineZero"     -> BE16s(<<0, 24576, 28672>>)
      [] f = "lineTwo"      -> BE16s(<<2, 5, 24576, 7, 28672>>)
      [] f = "lineShort"    -> BE16s(<<24576>>)
      [] f = "sopfOk"       -> LE32(1) \o LE32(2) \o LE32(0) \o LE32(4) \o <<1, 2, 3, 4>>
      [] f = "sopfEmpty"    -> LE32(1) \o LE32(0) \o LE32(0) \o LE32(0)
      [] f = "sopfShort"    -> LE32(1) \o LE32(2) \o LE32(0) \o LE32(8) \o <<1, 2, 3, 4>>
      [] f = "sopfWrap"     -> LE32(1) \o LE32(2) \o LE32(0) \o LE32(-8) \o <<1, 2, 3, 4>>
      [] f = "sopfTiny"     -> LE32(1) \o LE32(2)
      [] f = "fposOk"       -> LE32(2) \o LE32(0) \o LE32(1065353216) \o LE32(8)
                                 \o LE32(1056964608) \o LE32(1061158912)
      [] f = "fposMismatch" -> LE32(2) \o LE32(0) \o LE32(1065353216) \o LE32(4)
                                 \o LE32(1056964608) \o LE32(1061158912)
      [] f = "fposOver"     -> LE32(3) \o LE32(0) \o LE32(1065353216) \o LE32(12)
                                 \o LE32(1056964608) \o LE32(1061158912)
      [] f = "fposWrap"     -> LE32(1073741826) \o LE32(0) \o LE32(1065353216) \o LE32(8)
                                 \o LE32(1056964608) \o LE32(1061158912)
      [] f = "fposTiny"     -> LE32(2) \o LE32(0)
      [] f = "packOne"      -> <<128, 1, 2, 3, 0, 0, 1, 0, 255, 255, 255, 255>>
      [] f = "packTwo"      -> <<1, 0, 0, 0, 0, 0, 0, 2, 3, 4, 5, 6,
                                 120, 86, 52, 18, 7, 0, 0, 128, 0, 0, 0, 0>>
      [] f = "packThree"    -> <<9, 0, 0, 0, 0, 8, 0, 0, 0, 0, 7, 0,
                                 1, 1, 1, 1, 255, 0, 255, 0, 0, 0, 0, 1,
                                 2, 0, 0, 0, 0, 0, 0, 3, 127, 128, 129, 130>>
      [] f = "crunchOne"    -> FDotParams \o <<1, 0, 2, 0, 3, 0>>
      [] f = "crunchTwo"    -> FDotParams \o <<1, 0, 2, 0, 3, 0, 4, 0, 5, 0, 6, 0>>
      [] f = "crunchThree"  -> FDotParams \o <<9, 1, 8, 0, 7, 0, 6, 0, 5, 0, 4, 0,
                                                3, 0, 2, 0, 1, 0>>
      [] OTHER              -> <<>>

FileTable ==
    [f \in FileNames \cup PayloadNames \cup {"none"} |->
        IF f \in PayloadNames THEN Payload(f)
        ELSE FileParts(f).head \o Flatten(FileParts(f).chunks) \o FileParts(f).trail]

FileBytes(f) == FileTable[f]

FileSize(f) == Len(FileBytes(f))

\* a pointer into a buffer, or the null pointer
NullPtr == [buf |-> "null", off |-> 0]

\* the byte at offset i; a read past the end of the buffer yields whatever
\* the memory behind it holds (ub.byte)
ByteAt(f, i, ub) == IF i < FileSize(f) THEN FileBytes(f)[i + 1] ELSE ub.byte

\* A uint32_t is held as the integer in -2^31 .. 2^31-1 with the same 32
\* bits: a negative integer w stands for the word w + 2^32.
Signed8(b) == IF b >= 128 THEN b - 256 ELSE b

ReadLittleEndian32(f, i, ub) ==
    ByteAt(f, i, ub) + ByteAt(f, i + 1, ub) * 256
      + ByteAt(f, i + 2, ub) * 65536 + Signed8(ByteAt(f, i + 3, ub)) * 16777216

\* a + b in uint32_t for a small b >= 0: the sum modulo 2^32
Add32(a, b) == IF a > 2147483647 - b THEN (a - 2147483647) + (b - 2147483647) - 2 ELSE a + b

\* offset + w > limit in size_t, w a uint32_t
Exceeds(offset, w, limit) == w < 0 \/ offset + w > limit

\* a read of n bytes at offset i that leaves the buffer
ReadsOutside(f, i, n) == i + n > FileSize(f)

\* bit operations on 32-bit words: the halves of a word, and the word of
\* two halves
Lo16(w) == w % 65536

Hi16(w) == (w \div 65536) % 65536

Word32(hi, lo) ==
    IF hi >= 32768 THEN ((hi - 65536) * 65536) + lo ELSE (hi * 65536) + lo

RECURSIVE OrBits(_, _)
OrBits(a, b) ==
    IF a = 0 THEN b
    ELSE IF b = 0 THEN a
    ELSE (IF a % 2 = 1 \/ b % 2 = 1 THEN 1 ELSE 0) + 2 * OrBits(a \div 2, b \div 2)

RECURSIVE AndBits(_, _)
AndBits(a, b) ==
    IF a = 0 \/ b = 0 THEN 0
    ELSE (IF a % 2 = 1 /\ b % 2 = 1 THEN 1 ELSE 0) + 2 * AndBits(a \div 2, b \div 2)

BitOr(a, b) ==
    IF a >= 0 /\ b >= 0 THEN OrBits(a, b)
    ELSE Word32(OrBits(Hi16(a), Hi16(b)), OrBits(Lo16(a), Lo16(b)))

BitAnd(a, b) ==
    IF a >= 0 /\ b >= 0 THEN AndBits(a, b)
    ELSE Word32(AndBits(Hi16(a), Hi16(b)), AndBits(Lo16(a), Lo16(b)))

\* w << n and w >> n in uint32_t, 0 < n < 32
Shl32(w, n) ==
    IF w % (2 ^ (32 - n)) >= 2 ^ (31 - n)
    THEN ((w % (2 ^ (32 - n))) - (2 ^ (32 - n))) * (2 ^ n)
    ELSE (w % (2 ^ (32 - n))) * (2 ^ n)

Shr32(w, n) == IF w < 0 THEN (w \div (2 ^ n)) + (2 ^ (32 - n)) ELSE w \div (2 ^ n)

\* a swap that shifts the halves and forgets the two middle bytes
ShiftOnlySwap(input) == BitOr(Shl32(Shl32(input, 16), 8), Shr32(Shr32(input, 16), 8))

\* (((input << 16) | (input & 0xFF00)) << 8) | (((input >> 16) | (input & 0xFF0000)) >> 8)
ApplyComplexByteSwap(input) ==
    BitOr(Shl32(BitOr(Shl32(input, 16), BitAnd(input, 65280)), 8),
          Shr32(BitOr(Shr32(input, 16), BitAnd(input, 16711680)), 8))

\* ((value & 0xFF) << 24) | ((value & 0xFF00) << 8) | ((value & 0xFF0000) >> 8)
\*   | ((value & 0xFF000000) >> 24); 0xFF000000 is the word -16777216
LittleToBigEndian32(value) ==
    BitOr(BitOr(Shl32(BitAnd(value, 255), 24), Shl32(BitAnd(value, 65280), 8)),
          BitOr(Shr32(BitAnd(value, 16711680), 8), Shr32(BitAnd(value, -16777216), 24)))

\* static_cast<float>(x) for an unsigned x, as the bit pattern of the float:
\* 8 exponent bits over a 23-bit fraction, rounded to nearest, ties to even
RECURSIVE Log2(_)
Log2(x) == IF x < 2 THEN 0 ELSE 1 + Log2(x \div 2)

\* the float with exponent e whose fraction is q, the remainder r of the
\* division by 2^sh deciding the rounding
Rounded(e, sh, q, r) ==
    (e + 127) * 8388608
      + (q + (IF r > 2 ^ (sh - 1) \/ (r = 2 ^ (sh - 1) /\ q % 2 = 1) THEN 1 ELSE 0) - 8388608)

FloatOf(x, e) ==
    IF e <= 23 THEN (e + 127) * 8388608 + (x * (2 ^ (23 - e)) - 8388608)
    ELSE Rounded(e, e - 23, x \div (2 ^ (e - 23)), x % (2 ^ (e - 23)))

\* a negative x stands for the word x + 2^32, whose exponent is 31
FloatBits(x) ==
    IF x = 0 THEN 0
    ELSE IF x < 0 THEN Rounded(31, 8, (x \div 256) + 16777216, x % 256)
    ELSE FloatOf(x, Log2(x))

(***************************************************************************)
(* ErrorHandler::PostEvent with its message, for the parser.               *)
(***************************************************************************)
PostMsg(m, msg) == [PostEvent(m, EvNullPointer) EXCEPT !.log = Append(@, msg)]

(***************************************************************************)
(* ChunkHeader and ChunkReader.                                            *)
(***************************************************************************)
GetChunkTypeFromRawID(rawID) ==
    CASE rawID = Dot2Id -> "Dot2"
      [] rawID = FDotId -> "FDot"
      [] rawID = PrimId -> "Prim"
      [] rawID = LineId -> "Line"
      [] rawID = SoPFId -> "soPF"
      [] rawID = FPosId -> "FPos"
      [] rawID = TxNmId -> "TxNm"
      [] rawID = EndId  -> "End"
      [] OTHER          -> "Unknown"

ChunkHeader(id, dataSize) ==
    [rawID |-> id, size |-> dataSize, type |-> GetChunkTypeFromRawID(id)]

HeaderIsValid(h) == h.rawID # 0 /\ h.type # "Unknown"

IsEndMarker(h) == h.type = "End"

GetTotalSize(h) == Add32(h.size, 8)

NoReader == [fileData |-> "none", fileSize |-> 0, currentOffset |-> 0, discoveredChunks |-> <<>>]

ChunkReader(data, size, startOffset) ==
    [fileData |-> data, fileSize |-> size, currentOffset |-> startOffset,
     discoveredChunks |-> <<>>]

\* ChunkReader::Reset
ReaderReset(rd) ==
    [rd EXCEPT !.currentOffset =
        IF rd.fileSize >= 8
        THEN (IF rd.discoveredChunks = <<>> THEN rd.currentOffset
              ELSE rd.currentOffset - rd.currentOffset)
        ELSE 0]

\* <<machine, returned bool, header>>
ReadNextChunkHeader(m) ==
    LET rd == m.p.chunkReader
        chunkID == ReadLittleEndian32(rd.fileData, rd.currentOffset, m.ub)
        chunkSize == ReadLittleEndian32(rd.fileData, rd.currentOffset + 4, m.ub)
        header == ChunkHeader(chunkID, chunkSize)
    IN  IF rd.currentOffset + 8 > rd.fileSize THEN <<m, FALSE, ChunkHeader(0, 0)>>
        ELSE IF Exceeds(rd.currentOffset, GetTotalSize(header), rd.fileSize)
        THEN <<PostMsg(m, "Chunk extends past end of file"), FALSE, header>>
        ELSE <<m, HeaderIsValid(header), header>>

GetChunkData(rd, header) ==
    IF rd.fileData = "null" \/ rd.currentOffset + 8 >= rd.fileSize THEN NullPtr
    ELSE [buf |-> rd.fileData, off |-> rd.currentOffset + 8]

\* <<machine, returned bool>>
SkipToNextChunk(m, header) ==
    IF Exceeds(m.p.chunkReader.currentOffset, GetTotalSize(header), m.p.chunkReader.fileSize)
    THEN <<m, FALSE>>
    ELSE <<[m EXCEPT !.p.chunkReader.currentOffset = @ + GetTotalSize(header)], TRUE>>

\* discoveredChunks_.push_back(header)
Pushed(m, header) == [m EXCEPT !.p.chunkReader.discoveredChunks = Append(@, header)]

\* the while loop of ScanAllChunks; r is what ReadNextChunkHeader, the
\* loop's condition, returned.  A chunk of total size 0 leaves the reader
\* where it is: the loop pushes the same header until memory runs out.
RECURSIVE ScanLoop(_)
ScanLoop(r) ==
    IF ~r[2] THEN r[1]
    ELSE IF IsEndMarker(r[3]) THEN Pushed(r[1], r[3])
    ELSE IF GetTotalSize(r[3]) = 0 THEN [Pushed(r[1], r[3]) EXCEPT !.p.crashed = TRUE]
    ELSE IF ~SkipToNextChunk(Pushed(r[1], r[3]), r[3])[2]
    THEN PostMsg(Pushed(r[1], r[3]), "Failed to skip to next chunk")
    ELSE ScanLoop(ReadNextChunkHeader(SkipToNextChunk(Pushed(r[1], r[3]), r[3])[1]))

\* return !discoveredChunks_.empty()
ScanReturn(m) == <<m, m.p.chunkReader.discoveredChunks # <<>>>>

\* <<machine, returned bool>>
ScanAllChunks(m) ==
    IF m.p.chunkReader.fileData = "null" THEN <<m, FALSE>>
    ELSE ScanReturn(ScanLoop(ReadNextChunkHeader(
             [m EXCEPT !.p.chunkReader =
                 ReaderReset([@ EXCEPT !.discoveredChunks = <<>>])])))

\* <<machine, returned bool>>
ValidateChunkStructure(m) ==
    LET chunks == m.p.chunkReader.discoveredChunks
    IN  IF chunks = <<>> THEN <<m, FALSE>>
        ELSE IF \E i \in DOMAIN chunks : IsEndMarker(chunks[i]) THEN <<m, TRUE>>
        ELSE <<PostMsg(m, "No End chunk found"), FALSE>>

(***************************************************************************)
(* HeaderDetector.                                                         *)
(***************************************************************************)
FileHeader ==
    [type |-> "NoHeader", magic |-> 0, version |-> 0, info |-> 0, headerSize |-> 0,
     chunkOffset |-> 0]

IsValidVersionRange(value) == value >= VersionMin /\ value <= VersionMax

DetectHeaderType(first4bytes) ==
    IF first4bytes = Magic3DGM THEN "FullHeader"
    ELSE IF IsValidVersionRange(first4bytes) THEN "VersionOnly"
    ELSE "NoHeader"

\* <<machine, header>>
DetectHeader(m, data, fileSize) ==
    LET first4bytes == ReadLittleEndian32(data, 0, m.ub)
        type == DetectHeaderType(first4bytes)
    IN  IF data = "null" \/ fileSize < 4
        THEN <<PostMsg(m, "Invalid file data for header detection"), FileHeader>>
        ELSE IF type = "FullHeader"
        THEN IF fileSize < 12
             THEN <<PostMsg(m, "File too small for full header"), FileHeader>>
             ELSE <<m, [type |-> type, magic |-> first4bytes,
                        version |-> ReadLittleEndian32(data, 4, m.ub),
                        info |-> ReadLittleEndian32(data, 8, m.ub),
                        headerSize |-> 12, chunkOffset |-> 12]>>
        ELSE IF type = "VersionOnly"
        THEN <<m, [type |-> type, magic |-> 0, version |-> first4bytes, info |-> 0,
                   headerSize |-> 4, chunkOffset |-> 4]>>
        ELSE <<m, FileHeader>>

ValidateHeader(header, data, fileSize) ==
    IF data = "null" THEN FALSE
    ELSE IF header.chunkOffset >= fileSize THEN FALSE
    ELSE IF header.type = "FullHeader" /\ header.magic # Magic3DGM THEN FALSE
    ELSE IF header.type = "VersionOnly" /\ ~IsValidVersionRange(header.version) THEN FALSE
    ELSE fileSize - header.chunkOffset >= 8

(***************************************************************************)
(* ShapeData.  The vertex buffer holds floats as their bit patterns.       *)
(***************************************************************************)
ShapeData ==
    [vertexBuffer |-> <<>>, primitiveBuffer |-> <<>>, surfaces |-> <<>>,
     animationData |-> FALSE, vertexCount |-> 0, primitiveCount |-> 0,
     shapeFlags |-> 0, textureId |-> -1, isInitialized |-> FALSE]

VecLen(v) == Cardinality(DOMAIN v)

\* std::vector::resize: elements kept up to n, new ones zero
Resize(v, n) ==
    IF n = 0 THEN <<>> ELSE [i \in 0 .. n - 1 |-> IF i \in DOMAIN v THEN v[i] ELSE 0]

AllocateVertexBuffer(shape, vertexCount) ==
    [shape EXCEPT !.vertexBuffer = Resize(@, vertexCount * 8), !.vertexCount = vertexCount]

SetVertexCount(shape, count) == [shape EXCEPT !.vertexCount = count]

AllocatePrimitiveBuffer(shape, primitiveCount) ==
    [shape EXCEPT !.primitiveBuffer = Resize(@, primitiveCount),
                  !.primitiveCount = primitiveCount]

ShapeIsValid(shape) ==
    IF shape.vertexCount = 0 THEN FALSE
    ELSE IF VecLen(shape.vertexBuffer) # shape.vertexCount * 8 THEN FALSE
    ELSE IF shape.textureId < -1 THEN FALSE
    ELSE TRUE

ShapeReset(shape) == ShapeData

(***************************************************************************)
(* The vertex decoders.  A store through the output pointer at an index    *)
(* outside the vector, and a load past the end of the input buffer, are    *)
(* undefined: the process dies (ub.crash) or the access goes through to    *)
(* the memory behind the buffer.                                           *)
(***************************************************************************)
\* *(out + index) = value
Store(m, index, value) ==
    IF index \in DOMAIN m.p.parsedShape.vertexBuffer
    THEN [m EXCEPT !.p.parsedShape.vertexBuffer[index] = value]
    ELSE IF m.ub.crash THEN [m EXCEPT !.p.crashed = TRUE]
    ELSE [m EXCEPT !.p.wroteOutside = TRUE]

\* the loads of n bytes at ptr
Load(m, ptr, n) ==
    IF ReadsOutside(ptr.buf, ptr.off, n) /\ m.ub.crash
    THEN [m EXCEPT !.p.crashed = TRUE]
    ELSE m

\* xPacked, yPacked, zPacked: the byte-swapped word at ptr + at
Packed(ptr, at, ub) == ApplyComplexByteSwap(ReadLittleEndian32(ptr.buf, ptr.off + at, ub))

\* a loop whose back-references are off by one: Y read at packedVertices - 1,
\* Z at packedVertices - 2
RECURSIVE SlippedLoop(_, _, _, _)
SlippedLoop(m, packed, i, vertexCount) ==
    IF i >= vertexCount THEN m
    ELSE SlippedLoop(
             Store(Store(Store(m, 8 * i, FloatBits(Packed(packed, 12 * i, m.ub))),
                         8 * i + 1, FloatBits(Packed(packed, 12 * i + 8, m.ub))),
                   8 * i + 2, FloatBits(Packed(packed, 12 * i + 4, m.ub))),
             packed, i + 1, vertexCount)

\* the for loop of ConvertPackedToFloatVertices, from vertex i on
RECURSIVE ConvertLoop(_, _, _, _)
ConvertLoop(m, packed, i, vertexCount) ==
    IF i >= vertexCount THEN m
    ELSE ConvertLoop(
             Store(Store(Store(m, 8 * i, FloatBits(Packed(packed, 12 * i, m.ub))),
                         8 * i + 1, FloatBits(Packed(packed, 12 * i + 4, m.ub))),
                   8 * i + 2, FloatBits(Packed(packed, 12 * i + 8, m.ub))),
             packed, i + 1, vertexCount)

\* <<machine, returned bool>>; the output pointer is the shape's vertex buffer
ConvertPackedToFloatVertices(m, packedVertices, vertexCount) ==
    IF packedVertices = NullPtr \/ vertexCount = 0
    THEN <<PostMsg(m, "Invalid parameters for ConvertPackedToFloatVertices"), FALSE>>
    ELSE <<Store(ConvertLoop(Load(m, packedVertices, 12 * vertexCount),
                             packedVertices, 0, vertexCount),
                 8 * vertexCount, VertexTerminator), TRUE>>

\* the for loop of ConvertPackedToFloatVertices3Component: v4[0], v4[1], v4[2]
\* from input[0], input[1], input[2], then input += 3 and v4 += 8
RECURSIVE Convert3Loop(_, _, _, _)
Convert3Loop(m, input, i, vertexCount) ==
    IF i >= vertexCount THEN m
    ELSE Convert3Loop(
             Store(Store(Store(m, 8 * i, FloatBits(Packed(input, 12 * i, m.ub))),
                         8 * i + 1, FloatBits(Packed(input, 12 * i + 4, m.ub))),
                   8 * i + 2, FloatBits(Packed(input, 12 * i + 8, m.ub))),
             input, i + 1, vertexCount)

\* <<machine, returned bool>>
ConvertPackedToFloatVertices3Component(m, packedVertices, vertexCount) ==
    IF packedVertices = NullPtr \/ vertexCount = 0
    THEN <<PostMsg(m, "Invalid parameters for ConvertPackedToFloatVertices3Component"),
           FALSE>>
    ELSE <<Store(Convert3Loop(Load(m, packedVertices, 12 * vertexCount),
                              packedVertices, 0, vertexCount),
                 8 * vertexCount, VertexTerminator), TRUE>>

\* temp[0..2] = input[0..2], the rest zero
Sub4F2950Rearrangement(input) ==
    <<input[1], input[2], input[3], 0, 0, 0, 0, 0>>

\* memcpy(&output[i * 8], tempOutput, 32), from word k on
RECURSIVE CopyOut(_, _, _, _)
CopyOut(m, i, tempOutput, k) ==
    IF k >= 8 THEN m ELSE CopyOut(Store(m, 8 * i + k, tempOutput[k + 1]), i, tempOutput, k + 1)

\* the for loop of DecrunchDotsVertices; localBuffer is never written, so
\* its three words are whatever the stack holds (ub.garbage)
RECURSIVE DecrunchLoop(_, _, _)
DecrunchLoop(m, i, vertexCount) ==
    IF i >= vertexCount THEN m
    ELSE DecrunchLoop(
             CopyOut(m, i, Sub4F2950Rearrangement(<<m.ub.garbage, m.ub.garbage, m.ub.garbage>>), 0),
             i + 1, vertexCount)

\* <<machine, returned bool>>
DecrunchDotsVertices(m, compressedData, vertexCount) ==
    IF compressedData = NullPtr \/ vertexCount = 0
    THEN <<PostMsg(m, "Invalid parameters for DecrunchDotsVertices"), FALSE>>
    ELSE <<Store(DecrunchLoop(m, 0, vertexCount), 8 * vertexCount, VertexTerminator), TRUE>>

Dot2ValidateChunkData(header, data) ==
    IF data = NullPtr THEN FALSE
    ELSE IF header.type # "Dot2" THEN FALSE
    ELSE IF header.size < 8 THEN FALSE
    ELSE (header.size - 8) % 12 = 0

\* Dot2ChunkProcessor::ProcessChunk: <<machine, returned bool, vertex count>>
\* the end of both ProcessChunk functions: c is what the decoder returned
Decoded(c, vertexCount, msg) ==
    IF ~c[2] THEN <<PostMsg(c[1], msg), FALSE, vertexCount>>
    ELSE <<[c[1] EXCEPT !.p.parsedShape = SetVertexCount(@, vertexCount)], TRUE, vertexCount>>

\* shape.AllocateVertexBuffer(vertexCount)
Allocated(m, vertexCount) ==
    [m EXCEPT !.p.parsedShape = AllocateVertexBuffer(@, vertexCount)]

Dot2ProcessChunk(m, header, data) ==
    IF ~Dot2ValidateChunkData(header, data)
    THEN <<PostMsg(m, "Invalid Dot2 chunk data"), FALSE, 0>>
    ELSE IF header.size < 8 THEN <<PostMsg(m, "Dot2 chunk too small"), FALSE, 0>>
    ELSE IF (header.size - 8) % 12 # 0
    THEN <<PostMsg(m, "Invalid Dot2 vertex data size"), FALSE, 0>>
    ELSE Decoded(ConvertPackedToFloatVertices(Allocated(m, (header.size - 8) \div 12),
                                              [buf |-> data.buf, off |-> data.off + 8],
                                              (header.size - 8) \div 12),
                 (header.size - 8) \div 12, "Failed to process Dot2 vertices")

CalculateVertexCount(chunkSize) ==
    IF chunkSize < 24 THEN 0
    ELSE IF (chunkSize - 24) % 6 # 0 THEN 0
    ELSE (chunkSize - 24) \div 6

FDotValidateChunkData(header, data) ==
    IF data = NullPtr THEN FALSE
    ELSE IF header.type # "FDot" THEN FALSE
    ELSE IF header.size < 24 THEN FALSE
    ELSE (header.size - 24) % 6 = 0

\* FDotChunkProcessor::ProcessChunk: <<machine, returned bool, vertex count>>
FDotProcessChunk(m, header, data) ==
    IF ~FDotValidateChunkData(header, data)
    THEN <<PostMsg(m, "Invalid FDot chunk data"), FALSE, 0>>
    ELSE IF CalculateVertexCount(header.size) = 0
    THEN <<PostMsg(m, "No vertices in FDot chunk"), FALSE, 0>>
    ELSE Decoded(DecrunchDotsVertices(Allocated(m, CalculateVertexCount(header.size)), data,
                                      CalculateVertexCount(header.size)),
                 CalculateVertexCount(header.size), "Failed to decompress FDot vertices")

(***************************************************************************)
(* PrimitiveProcessor and PrimChunkProcessor.  The payload is read as      *)
(* 16-bit words in the byte order of the host, which is little-endian.     *)
(***************************************************************************)
\* data[k] for a const uint16_t* data
Token(data, k, ub) ==
    ByteAt(data.buf, data.off + 2 * k, ub) + 256 * ByteAt(data.buf, data.off + 2 * k + 1, ub)

IsValidPrimitiveType(type) ==
    type \in {TriangleStrip, QuadStripInput, QuadStrip, TriangleList, PointSprite,
              LineStrip, LineStripAlt, ComplexPrimitive, EndMarker, Terminator}

IsControlConstant(type) == type = EndMarker \/ type = Terminator

\* LOBYTE_BASIC 0x1, HIBYTE_EXTENDED 0x100, BYTE2_INDEXED 0x10000,
\* LOWORD_COMPLEX 0x101
GetFlagsForType(type) ==
    CASE type = TriangleStrip    -> BitOr(1, 65536)
      [] type = QuadStrip        -> BitOr(257, 256)
      [] type = TriangleList     -> BitOr(1, 65536)
      [] type = PointSprite      -> 1
      [] type = LineStrip        -> BitOr(1, 256)
      [] type = ComplexPrimitive -> 257
      [] OTHER                   -> 0

ConvertInputType(inputType) ==
    CASE inputType = QuadStripInput -> QuadStrip
      [] inputType = LineStripAlt   -> PointSprite
      [] OTHER                      -> inputType

SetPrimitiveFlags(m, type) == [m EXCEPT !.primitiveFlags = GetFlagsForType(type)]

ValidatePrimitiveData(primitiveData, dataSize) ==
    IF primitiveData = NullPtr \/ dataSize = 0 THEN FALSE
    ELSE IF dataSize < 2 THEN FALSE
    ELSE TRUE

\* the while loop of CountPrimitives
RECURSIVE CountLoop(_, _, _, _, _)
CountLoop(primitiveData, dataSize, offset, count, ub) ==
    IF offset >= dataSize THEN count
    ELSE IF ~IsValidPrimitiveType(Token(primitiveData, offset, ub)) THEN count
    ELSE IF Token(primitiveData, offset, ub) = EndMarker THEN count
    ELSE CountLoop(primitiveData, dataSize, offset + 1,
                   IF IsControlConstant(Token(primitiveData, offset, ub)) THEN count
                   ELSE count + 1, ub)

CountPrimitives(primitiveData, dataSize, ub) ==
    IF primitiveData = NullPtr \/ dataSize = 0 THEN 0
    ELSE CountLoop(primitiveData, dataSize, 0, 0, ub)

\* the vector ConvertToTriangleList returns, as a sequence
ConvertToTriangleList(stripData, count, ub) ==
    IF count < 3 THEN <<>>
    ELSE [j \in 1 .. 3 * (count - 2) |-> Token(stripData, ((j - 1) \div 3) + ((j - 1) % 3), ub)]

\* <<machine, returned bool>>; the triangles are a local of the function,
\* m.triangles keeps them for inspection
ProcessTriangleStrip(m, data, count) ==
    <<[m EXCEPT !.triangles = ConvertToTriangleList(data, count, m.ub)], TRUE>>

ProcessComplexPrimitive(m, data, count) ==
    IF count < 10 THEN <<PostMsg(m, "Insufficient data for complex primitive"), FALSE>>
    ELSE <<m, TRUE>>

\* the switch of ProcessPrimitiveData: <<machine, processed>>.  The other
\* Process functions return true and leave the shape alone.
ProcessByType(m, type, typeData, remainingData) ==
    CASE type = TriangleStrip    -> ProcessTriangleStrip(m, typeData, remainingData)
      [] type = TriangleList     -> <<m, TRUE>>
      [] type = QuadStrip        -> <<m, TRUE>>
      [] type = PointSprite      -> <<m, TRUE>>
      [] type = LineStrip        -> <<m, TRUE>>
      [] type = ComplexPrimitive -> ProcessComplexPrimitive(m, typeData, remainingData)
      [] OTHER                   -> <<PostMsg(m, "Unsupported primitive type"), FALSE>>

\* the while loop of ProcessPrimitiveData: <<machine, returned bool>>
RECURSIVE PrimitiveLoop(_, _, _, _)

\* the end of the loop body, r being what the switch returned
Advanced(r, primitiveData, dataSize, offset) ==
    IF ~r[2] THEN <<r[1], FALSE>>
    ELSE PrimitiveLoop(r[1], primitiveData, dataSize, offset + 10)

PrimitiveLoop(m, primitiveData, dataSize, offset) ==
    IF offset >= dataSize THEN <<m, TRUE>>
    ELSE IF ~IsValidPrimitiveType(Token(primitiveData, offset, m.ub)) THEN <<m, TRUE>>
    ELSE IF Token(primitiveData, offset, m.ub) = EndMarker THEN <<m, TRUE>>
    ELSE IF IsControlConstant(Token(primitiveData, offset, m.ub))
    THEN PrimitiveLoop(m, primitiveData, dataSize, offset + 1)
    ELSE Advanced(ProcessByType(SetPrimitiveFlags(m, Token(primitiveData, offset, m.ub)),
                                ConvertInputType(Token(primitiveData, offset, m.ub)),
                                [primitiveData EXCEPT !.off = @ + 2 * (offset + 1)],
                                dataSize - offset - 1),
                  primitiveData, dataSize, offset)

\* <<machine, returned bool>>
ProcessPrimitiveData(m, primitiveData, dataSize) ==
    IF ~ValidatePrimitiveData(primitiveData, dataSize)
    THEN <<PostMsg(m, "Invalid primitive data"), FALSE>>
    ELSE IF CountPrimitives(primitiveData, dataSize, m.ub) = 0 THEN <<m, TRUE>>
    ELSE PrimitiveLoop(
             [m EXCEPT !.p.parsedShape =
                 AllocatePrimitiveBuffer(@, CountPrimitives(primitiveData, dataSize, m.ub) * 3)],
             primitiveData, dataSize, 0)

PrimValidateChunkData(header, data) ==
    IF data = NullPtr THEN FALSE
    ELSE IF header.type # "Prim" THEN FALSE
    ELSE IF header.size = 0 THEN FALSE
    ELSE header.size % 2 = 0

ParsePrimitiveData(m, data, size) ==
    IF data = NullPtr \/ size = 0 THEN <<m, FALSE>>
    ELSE ProcessPrimitiveData(m, data, size \div 2)

\* the end of PrimChunkProcessor::ProcessChunk, r from ParsePrimitiveData
PrimParsed(r) ==
    IF ~r[2] THEN <<PostMsg(r[1], "Failed to parse Prim chunk data"), FALSE>>
    ELSE <<[r[1] EXCEPT !.p.parsedShape.shapeFlags = BitOr(@, 4)], TRUE>>

\* PrimChunkProcessor::ProcessChunk: <<machine, returned bool>>
PrimProcessChunk(m, header, data) ==
    IF ~PrimValidateChunkData(header, data)
    THEN <<PostMsg(m, "Invalid Prim chunk data"), FALSE>>
    ELSE PrimParsed(ParsePrimitiveData(m, data, header.size))

(***************************************************************************)
(* LineProcessor.  The input is a run of 16-bit tokens, inputPtr and       *)
(* inputEnd count tokens from the start of the chunk data; the output      *)
(* buffer of bufferSize_ bytes is written and read as 32-bit words,        *)
(* outputPtr counts words from its start.  A machine state m carries the   *)
(* processor (lp), the LineProcessingState of the call (st) and the lines  *)
(* CreateSurfaceFromPrimitive printed (created).                           *)
(***************************************************************************)
LineProcessor ==
    [outputBuffer |-> <<>>, bufferSize |-> 0, crashed |-> FALSE, hung |-> FALSE,
     wroteOutside |-> FALSE, readOutside |-> FALSE]

\* ErrorHandler::PostEvent(code, message)
PostEventMsg(m, code, msg) == [PostEvent(m, code) EXCEPT !.log = Append(@, msg)]

LittleToBigEndian16(value) == ((value % 256) * 256) + ((value \div 256) % 256)

\* new uint8_t[estimatedSize] when the buffer is too small, then memset
PrepareOutputBuffer(m, estimatedSize) ==
    [m EXCEPT !.lp.bufferSize = IF estimatedSize > @ THEN estimatedSize ELSE @,
              !.lp.outputBuffer =
                  Resize(<<>>, (IF estimatedSize > m.lp.bufferSize THEN estimatedSize
                                ELSE m.lp.bufferSize) \div 4)]

NoState ==
    [data |-> NullPtr, inputPtr |-> 0, inputEnd |-> 0, outputPtr |-> 0,
     currentPrimitiveType |-> 0, primitiveDataBuffer |-> <<>>,
     complexPrimitiveBuffer |-> <<>>, primitiveConversions |-> <<>>]

\* the token at the input cursor, byte-swapped
SwappedAt(m) == LittleToBigEndian16(Token(m.st.data, m.st.inputPtr, m.ub))

\* <<machine, returned bool>>
InitializeProcessingState(m, data, size) ==
    IF 0 >= size \div 2 THEN <<m, FALSE>>
    ELSE <<[m EXCEPT !.st = [data |-> data, inputPtr |-> 0, inputEnd |-> size \div 2,
                             outputPtr |-> 0,
                             currentPrimitiveType |->
                                 LittleToBigEndian16(Token(data, 0, m.ub)),
                             primitiveDataBuffer |-> Resize(<<>>, 18),
                             complexPrimitiveBuffer |-> Resize(<<>>, 18),
                             primitiveConversions |-> <<>>]], TRUE>>

\* *state.outputPtr++ = value; a store outside the buffer is undefined
Emit(m, value) ==
    IF m.st.outputPtr \in DOMAIN m.lp.outputBuffer
    THEN [m EXCEPT !.lp.outputBuffer[m.st.outputPtr] = value, !.st.outputPtr = @ + 1]
    ELSE IF m.ub.crash THEN [m EXCEPT !.lp.crashed = TRUE]
    ELSE [m EXCEPT !.lp.wroteOutside = TRUE, !.st.outputPtr = @ + 1]

\* n rounds of the for loop of Phase 1: n tokens go, swapped, from the
\* input cursor to the output cursor
CopySegments(m, n) ==
    IF m.st.outputPtr + n > VecLen(m.lp.outputBuffer) /\ m.ub.crash
    THEN [m EXCEPT !.lp.crashed = TRUE]
    ELSE [m EXCEPT
            !.lp.outputBuffer =
                [i \in DOMAIN @ |->
                    IF i >= m.st.outputPtr /\ i < m.st.outputPtr + n
                    THEN LittleToBigEndian16(
                             Token(m.st.data, m.st.inputPtr + (i - m.st.outputPtr), m.ub))
                    ELSE @[i]],
            !.lp.wroteOutside = @ \/ m.st.outputPtr + n > VecLen(m.lp.outputBuffer),
            !.st.inputPtr = @ + n,
            !.st.outputPtr = @ + n]

\* the for loop of Phase 1 with segmentCount = currentPrimitiveType:
\* <<machine, FALSE>> when the input ends first
ReadSegments(m) ==
    IF m.st.currentPrimitiveType > m.st.inputEnd - m.st.inputPtr
    THEN <<PostEventMsg(CopySegments(m, m.st.inputEnd - m.st.inputPtr), 1040,
                        "Unexpected end of line data"), FALSE>>
    ELSE <<CopySegments(m, m.st.currentPrimitiveType), TRUE>>

\* the word at index i of the output buffer; a load outside it is undefined
WordAt(m, i) == IF i \in DOMAIN m.lp.outputBuffer THEN m.lp.outputBuffer[i] ELSE m.ub.garbage

\* the loads of words lo .. hi of the output buffer
Loaded(m, lo, hi) ==
    IF hi < VecLen(m.lp.outputBuffer) /\ lo >= 0 THEN m
    ELSE IF m.ub.crash THEN [m EXCEPT !.lp.crashed = TRUE]
    ELSE [m EXCEPT !.lp.readOutside = TRUE]

\* ExtractPrimitiveData(sourceData, targetBuffer, 1), sourceData the output cursor
ExtractPrimitiveData(m) ==
    [Loaded(m, m.st.outputPtr, m.st.outputPtr + 4) EXCEPT
        !.st.primitiveDataBuffer =
            [i \in DOMAIN @ |-> IF i <= 4 THEN WordAt(m, m.st.outputPtr + i) ELSE @[i]]]

\* CreateSurfaceFromPrimitive: the surface generator is not called, the
\* function prints type, texture and flags and returns true
CreateSurfaceFromPrimitive(m, surfaceData) ==
    [m EXCEPT !.created = Append(@, [primitiveType |-> surfaceData[0] % 65536,
                                     textureID |-> 0,
                                     flags |-> surfaceData[3] % 65536])]

\* the rest of HandleSpecialLineType, x being the machine after the extraction
Handled(x) ==
    IF x.lp.crashed \/ HasLastError(x) THEN <<x, FALSE>>
    ELSE <<[CreateSurfaceFromPrimitive(x, x.st.primitiveDataBuffer) EXCEPT
               !.st.primitiveConversions =
                   Append(@, [originalType |-> x.st.currentPrimitiveType,
                              convertedType |-> 0]),
               !.st.outputPtr = WordAt(x, 0)], TRUE>>

\* <<machine, returned bool>>
HandleSpecialLineType(m) == Handled(ExtractPrimitiveData(m))

\* the while loop of Phase 1: <<machine, returned bool>>.  With a type
\* token of 0 an iteration changes nothing, and the loop never ends.
RECURSIVE Phase1Loop(_)

\* the end of the loop body: r is <<machine, true>> or what
\* HandleSpecialLineType returned
Phase1Read(r) ==
    IF ~r[2] THEN r
    ELSE IF r[1].st.inputPtr >= r[1].st.inputEnd THEN r
    ELSE Phase1Loop([r[1] EXCEPT !.st.currentPrimitiveType = SwappedAt(r[1])])

\* r is what the for loop left
Phase1Special(r) ==
    IF r[1].lp.crashed \/ ~r[2] THEN <<r[1], FALSE>>
    ELSE IF r[1].st.currentPrimitiveType = 28422 \/ r[1].st.currentPrimitiveType = 18189
    THEN Phase1Read(HandleSpecialLineType(r[1]))
    ELSE Phase1Read(r)

Phase1Loop(m) ==
    IF m.st.currentPrimitiveType = 24576 THEN <<m, TRUE>>
    ELSE IF m.st.currentPrimitiveType # 0 THEN Phase1Special(ReadSegments(m))
    ELSE IF m.st.inputPtr >= m.st.inputEnd THEN <<m, TRUE>>
    ELSE <<[m EXCEPT !.lp.hung = TRUE], FALSE>>

Phase1_ReadLineSegments(m) == Phase1Loop(m)

ConvertedType(originalType) ==
    IF originalType = 28422 \/ originalType = 28423 THEN 21251
    ELSE IF originalType = 18189 THEN 18190
    ELSE 0

Phase2_ConvertPrimitiveTypes(m) ==
    IF m.st.primitiveConversions = <<>> THEN m
    ELSE [m EXCEPT
            !.st.primitiveConversions =
                [i \in DOMAIN @ |->
                    [@[i] EXCEPT !.convertedType = ConvertedType(@[i].originalType)]],
            !.st.primitiveDataBuffer =
                [@ EXCEPT ![0] = ConvertedType(
                                     m.st.primitiveConversions[
                                         Len(m.st.primitiveConversions)].originalType),
                          ![5] = 0]]

\* the while loop of Phase 3 and what follows it: <<machine, returned bool>>
RECURSIVE Phase3Loop(_)
Phase3Loop(m) ==
    IF m.lp.crashed THEN <<m, FALSE>>
    ELSE IF SwappedAt(m) = 28672
    THEN <<[Emit(m, -1) EXCEPT !.st.inputPtr = @ + 1], ~Emit(m, -1).lp.crashed>>
    ELSE IF m.st.inputPtr + 1 >= m.st.inputEnd
    THEN <<PostEventMsg([Emit(m, SwappedAt(m)) EXCEPT !.st.inputPtr = @ + 1], 1056,
                        "Unexpected end during line data processing"), FALSE>>
    ELSE Phase3Loop([Emit(m, SwappedAt(m)) EXCEPT !.st.inputPtr = @ + 1])

Phase3_ProcessLineData(m) ==
    IF m.st.inputPtr >= m.st.inputEnd THEN <<m, FALSE>> ELSE Phase3Loop(m)

\* slot i of the complex primitive record, from the words of the output
ComplexSlot(m, i) ==
    CASE i = 0  -> 30733
      [] i = 3  -> WordAt(m, 2)
      [] i = 4  -> WordAt(m, 3)
      [] i = 9  -> WordAt(m, 4)
      [] i = 6  -> WordAt(m, 10)
      [] i = 12 -> WordAt(m, 5)
      [] i = 7  -> WordAt(m, 11)
      [] i = 8  -> WordAt(m, 12)
      [] i = 10 -> WordAt(m, 6)
      [] i = 13 -> WordAt(m, 7)
      [] i = 11 -> WordAt(m, 8)
      [] i = 14 -> WordAt(m, 9)
      [] OTHER  -> m.st.complexPrimitiveBuffer[i]

\* x is the machine after the loads of words 2 .. 12
Materialized(x) ==
    IF x.lp.crashed THEN <<x, FALSE>>
    ELSE <<CreateSurfaceFromPrimitive(
               [x EXCEPT !.st.complexPrimitiveBuffer = [i \in DOMAIN @ |-> ComplexSlot(x, i)]],
               [i \in 0 .. 17 |-> ComplexSlot(x, i)]), TRUE>>

Phase4_CreateComplexPrimitiveSurfaces(m) ==
    IF m.st.currentPrimitiveType = 17165 THEN Materialized(Loaded(m, 2, 12))
    ELSE <<m, TRUE>>

FinalizeOutput(m) == Emit(m, -2)

\* ProcessLineChunk is its phases in turn, each taking what the one before
\* it returned: r from Phase 4,
LinePhase4Done(r) ==
    IF r[1].lp.crashed THEN <<r[1], FALSE>>
    ELSE IF ~r[2]
    THEN <<PostEventMsg(r[1], 1028, "Phase 4 failed - complex primitive creation"), FALSE>>
    ELSE <<FinalizeOutput(r[1]), ~FinalizeOutput(r[1]).lp.crashed>>

\* r from Phase 3,
LinePhase3Done(r) ==
    IF r[1].lp.crashed THEN <<r[1], FALSE>>
    ELSE IF ~r[2]
    THEN <<PostEventMsg(r[1], 1027, "Phase 3 failed - line data processing"), FALSE>>
    ELSE LinePhase4Done(Phase4_CreateComplexPrimitiveSurfaces(r[1]))

\* r from Phase 1,
LinePhase1Done(r) ==
    IF r[1].lp.crashed \/ r[1].lp.hung THEN <<r[1], FALSE>>
    ELSE IF ~r[2]
    THEN <<PostEventMsg(r[1], 1025, "Phase 1 failed - line segment reading"), FALSE>>
    ELSE LinePhase3Done(Phase3_ProcessLineData(Phase2_ConvertPrimitiveTypes(r[1])))

\* r from InitializeProcessingState
LineInitialized(r) ==
    IF ~r[2] THEN r ELSE LinePhase1Done(Phase1_ReadLineSegments(r[1]))

\* <<machine, returned bool>>
ProcessLineChunk(m, chunkData, chunkSize) ==
    IF chunkData = NullPtr \/ chunkSize < 4
    THEN <<PostEventMsg(m, 1024, "Invalid Line chunk data"), FALSE>>
    ELSE LineInitialized(InitializeProcessingState(PrepareOutputBuffer(m, chunkSize * 2),
                                                   chunkData, chunkSize))

(***************************************************************************)
(* AnimationSystem: the ingest of soPF and FPos chunks.  A stored chunk    *)
(* keeps its header fields and the bytes copied from the payload.          *)
(***************************************************************************)
AnimationSystem ==
    [sopfChunks |-> <<>>, fposChunks |-> <<>>, crashed |-> FALSE, readOutside |-> FALSE]

\* x * 4 in uint32_t
Mul4(x) ==
    IF x % 1073741824 >= 536870912 THEN ((x % 1073741824) - 1073741824) * 4
    ELSE (x % 1073741824) * 4

\* the n bytes at ptr, as far as the buffer holds them; n < 0 stands for
\* a count of 2^31 or more
BytesAt(ptr, n) ==
    IF n < 0 \/ ptr.off + n > FileSize(ptr.buf)
    THEN SubSeq(FileBytes(ptr.buf), ptr.off + 1, FileSize(ptr.buf))
    ELSE SubSeq(FileBytes(ptr.buf), ptr.off + 1, ptr.off + n)

\* the copy of n bytes from ptr; past the end of the buffer it is undefined
Copied(m, ptr, n) ==
    IF n >= 0 /\ ptr.off + n <= FileSize(ptr.buf) THEN m
    ELSE IF m.ub.crash THEN [m EXCEPT !.as.crashed = TRUE]
    ELSE [m EXCEPT !.as.readOutside = TRUE]

\* sopfChunks_.push_back / fposChunks_.push_back after the copy
Stored(x, list, chunk) ==
    IF x.as.crashed THEN <<x, FALSE>>
    ELSE <<[x EXCEPT !.as[list] = Append(@, chunk)], TRUE>>

\* <<machine, returned bool>>
ProcessSoPFChunk(m, chunkData, chunkSize) ==
    IF chunkData = NullPtr \/ chunkSize < 16
    THEN <<PostEventMsg(m, 1328, "Invalid soPF chunk data"), FALSE>>
    ELSE IF Exceeds(0, Add32(ReadLittleEndian32(chunkData.buf, chunkData.off + 12, m.ub), 16),
                    chunkSize)
    THEN <<PostEventMsg(m, 1329, "soPF chunk data size mismatch"), FALSE>>
    ELSE Stored(Copied(m, [chunkData EXCEPT !.off = @ + 16],
                       ReadLittleEndian32(chunkData.buf, chunkData.off + 12, m.ub)),
                "sopfChunks",
                [shapeID |-> ReadLittleEndian32(chunkData.buf, chunkData.off, m.ub),
                 propertyCount |-> ReadLittleEndian32(chunkData.buf, chunkData.off + 4, m.ub),
                 timeStamp |-> ReadLittleEndian32(chunkData.buf, chunkData.off + 8, m.ub),
                 dataSize |-> ReadLittleEndian32(chunkData.buf, chunkData.off + 12, m.ub),
                 propertyData |->
                     BytesAt([chunkData EXCEPT !.off = @ + 16],
                             ReadLittleEndian32(chunkData.buf, chunkData.off + 12, m.ub))])

\* the bytes frameCount floats take; -1 stands for 2^31 or more
FloatBytes(frameCount) ==
    IF frameCount < 0 \/ frameCount >= 536870912 THEN -1 ELSE frameCount * 4

\* <<machine, returned bool>>
ProcessFPosChunk(m, chunkData, chunkSize) ==
    IF chunkData = NullPtr \/ chunkSize < 16
    THEN <<PostEventMsg(m, 1330, "Invalid FPos chunk data"), FALSE>>
    ELSE IF ReadLittleEndian32(chunkData.buf, chunkData.off + 12, m.ub)
              # Mul4(ReadLittleEndian32(chunkData.buf, chunkData.off, m.ub))
    THEN <<PostEventMsg(m, 1331, "FPos data size validation failed"), FALSE>>
    ELSE IF Exceeds(0, Add32(ReadLittleEndian32(chunkData.buf, chunkData.off + 12, m.ub), 16),
                    chunkSize)
    THEN <<PostEventMsg(m, 1332, "FPos chunk data size mismatch"), FALSE>>
    ELSE Stored(Copied(m, [chunkData EXCEPT !.off = @ + 16],
                       FloatBytes(ReadLittleEndian32(chunkData.buf, chunkData.off, m.ub))),
                "fposChunks",
                [frameCount |-> ReadLittleEndian32(chunkData.buf, chunkData.off, m.ub),
                 startTime |-> ReadLittleEndian32(chunkData.buf, chunkData.off + 4, m.ub),
                 endTime |-> ReadLittleEndian32(chunkData.buf, chunkData.off + 8, m.ub),
                 positionDataSize |->
                     ReadLittleEndian32(chunkData.buf, chunkData.off + 12, m.ub),
                 positionData |->
                     BytesAt([chunkData EXCEPT !.off = @ + 16],
                             FloatBytes(ReadLittleEndian32(chunkData.buf, chunkData.off,
                                                           m.ub)))])

(***************************************************************************)
(* Parser3GM.  chunkProcessors_ is the set of chunk kinds that have a      *)
(* processor; each processor is registered under its own kind.             *)
(***************************************************************************)
Parser3GM ==
    [debugMode |-> FALSE, processedChunkCount |-> 0, chunkProcessors |-> {},
     fileData |-> "none", filename |-> "", chunkReader |-> NoReader,
     parsedShape |-> ShapeData, fileHeader |-> FileHeader,
     crashed |-> FALSE, wroteOutside |-> FALSE]

RegisterChunkProcessor(p, type) == [p EXCEPT !.chunkProcessors = @ \cup {type}]

RegisterDefaultProcessors(p) == p

ParserReset(m) ==
    ClearError([m EXCEPT !.p.chunkProcessors = {}, !.p.fileData = "none",
                         !.p.filename = "", !.p.chunkReader = NoReader,
                         !.p.parsedShape = ShapeReset(@), !.p.processedChunkCount = 0])

\* processedChunkCount_++ after a chunk that was processed
Counted(r) ==
    IF r[1].p.crashed \/ ~r[2] THEN r
    ELSE <<[r[1] EXCEPT !.p.processedChunkCount = @ + 1], TRUE>>

\* the call of a processor, r being what it returned, noted in m.trace
Invoked(r, header, data) ==
    <<[r[1] EXCEPT !.trace = Append(@, [type |-> header.type, data |-> data,
                                        ok |-> r[2], n |-> r[3]])], r[2]>>

\* <<machine, returned bool>>; m.trace lists the processors invoked
ProcessChunk(m, header, data) ==
    IF header.type \notin m.p.chunkProcessors THEN <<m, TRUE>>
    ELSE Invoked(IF header.type = "Dot2" THEN Dot2ProcessChunk(m, header, data)
                 ELSE FDotProcessChunk(m, header, data),
                 header, data)

\* the for loop of ProcessAllChunks, from chunk i on; r is <<machine, true>>
\* at the start and what ProcessChunk returned for chunk i - 1 afterwards
RECURSIVE ProcessLoop(_, _)
ProcessLoop(r, i) ==
    IF r[1].p.crashed \/ ~r[2] THEN <<r[1], FALSE>>
    ELSE IF i > Len(r[1].p.chunkReader.discoveredChunks) THEN <<r[1], TRUE>>
    ELSE IF IsEndMarker(r[1].p.chunkReader.discoveredChunks[i]) THEN ProcessLoop(r, i + 1)
    ELSE IF GetChunkData(r[1].p.chunkReader, r[1].p.chunkReader.discoveredChunks[i]) = NullPtr
    THEN <<PostMsg(r[1], "Could not get chunk data"), FALSE>>
    ELSE ProcessLoop(
             Counted(ProcessChunk(r[1], r[1].p.chunkReader.discoveredChunks[i],
                                  GetChunkData(r[1].p.chunkReader,
                                               r[1].p.chunkReader.discoveredChunks[i]))),
             i + 1)

ProcessAllChunks(m) ==
    IF m.p.chunkReader = NoReader THEN <<m, FALSE>>
    ELSE ProcessLoop(<<[m EXCEPT !.p.processedChunkCount = 0], TRUE>>, 1)

ValidateParsedData(p) == ShapeIsValid(p.parsedShape)

\* <<machine, returned bool>>; m.scanRet keeps what ScanAllChunks returned
\* ParseBuffer is its steps in turn, each taking what the call before it
\* returned: a is from ProcessAllChunks,
ParseProcessed(a) ==
    IF ~a[2] THEN <<a[1], FALSE>>
    ELSE IF ~ValidateParsedData(a[1].p)
    THEN <<PostMsg(a[1], "Parsed data validation failed"), FALSE>>
    ELSE <<a[1], TRUE>>

\* v from ValidateChunkStructure,
ParseValidated(v) ==
    IF ~v[2] THEN <<PostMsg(v[1], "Invalid chunk structure"), FALSE>>
    ELSE ParseProcessed(ProcessAllChunks(v[1]))

\* s from ScanAllChunks,
ParseScanned(s) ==
    IF s[1].p.crashed THEN <<[s[1] EXCEPT !.scanRet = "never"], FALSE>>
    ELSE IF ~s[2] THEN <<PostMsg([s[1] EXCEPT !.scanRet = "false"], "Failed to scan chunks"), FALSE>>
    ELSE ParseValidated(ValidateChunkStructure([s[1] EXCEPT !.scanRet = "true"]))

\* h from DetectHeader
ParseDetected(h, data, size) ==
    IF ~ValidateHeader(h[2], data, size)
    THEN <<PostMsg([h[1] EXCEPT !.p.fileHeader = h[2]], "Invalid file header"), FALSE>>
    ELSE ParseScanned(ScanAllChunks(
             [h[1] EXCEPT !.p.fileHeader = h[2],
                          !.p.chunkReader = ChunkReader(data, size, h[2].chunkOffset)]))

ParseBuffer(m, data, size) ==
    IF data = "null" \/ size < 8 THEN <<PostMsg(m, "Invalid buffer data"), FALSE>>
    ELSE ParseDetected(DetectHeader(m, data, size), data, size)

\* <<machine, returned bool>>; the file "null" cannot be opened
LoadFileData(m, filename) ==
    IF filename = "null" THEN <<PostMsg(m, "Could not open file"), FALSE>>
    ELSE IF FileSize(filename) = 0 THEN <<PostMsg(m, "Empty file"), FALSE>>
    ELSE <<[m EXCEPT !.p.fileData = filename], TRUE>>

\* l is what LoadFileData returned
ParseLoaded(l) ==
    IF ~l[2] THEN l
    ELSE ParseBuffer(l[1], l[1].p.fileData, FileSize(l[1].p.fileData))

ParseFile(m, filename) ==
    ParseLoaded(LoadFileData([ParserReset(m) EXCEPT !.p.filename = filename], filename))

(***************************************************************************)
(* The surface table driven by its callers: the state after construction,  *)
(* then Initialize, GetOrCreateSurface with arguments from small sets, and *)
(* Cleanup.                                                                *)
(***************************************************************************)
PrimTypes == {TriangleStrip, QuadStrip}
TexIds == -2 .. MaxTexturesArg
FlagVals == 0 .. MaxFlag

NoCall == [op |-> "none", session |-> "A", key |-> <<0, 0, 0>>, ret |-> 0, posted |-> <<>>]

Machine(s) == [g |-> gens[s], err |-> g_lastProcessedEvent, posted |-> <<>>]

InitializeStep(s) ==
    /\ ~Stopped(gens[s])
    /\ \E mt \in {MaxTexturesArg}, ms \in {MaxSurfacesArg} :
          /\ gens' = [gens EXCEPT ![s] = Initialize(IF @.systemInitialized THEN Cleanup(@) ELSE @, mt, ms)]
          /\ last' = [op |-> "Initialize", session |-> s, key |-> <<mt, ms, 0>>,
                      ret |-> 1, posted |-> <<>>]
    /\ UNCHANGED g_lastProcessedEvent

CleanupStep(s) ==
    /\ ~Stopped(gens[s])
    /\ gens[s].systemInitialized
    /\ gens' = [gens EXCEPT ![s] = Cleanup(@)]
    /\ last' = [op |-> "Cleanup", session |-> s, key |-> <<0, 0, 0>>, ret |-> 0, posted |-> <<>>]
    /\ UNCHANGED g_lastProcessedEvent

GetOrCreateSurfaceStep(s, pt, tex, fl) ==
    /\ ~Stopped(gens[s])
    /\ \E oobv \in OobReadValues(gens[s]) :
          LET r == GetOrCreateSurface(Machine(s), pt, tex, fl, oobv)
          IN  /\ gens' = [gens EXCEPT ![s] = r[1].g]
              /\ g_lastProcessedEvent' = r[1].err
              /\ last' = [op |-> "GetOrCreateSurface", session |-> s, key |-> <<pt, tex, fl>>,
                          ret |-> r[2], posted |-> r[1].posted]

DoInitialize(s) == InitializeStep(s) /\ UNCHANGED <<calls, plan, parser, chunkVars>>

DoCleanup(s) == CleanupStep(s) /\ UNCHANGED <<calls, plan, parser, chunkVars>>

DoGetOrCreateSurface(s) ==
    /\ \E pt \in PrimTypes, tex \in TexIds, fl \in FlagVals : GetOrCreateSurfaceStep(s, pt, tex, fl)
    /\ UNCHANGED <<calls, plan, parser, chunkVars>>

Init ==
    /\ gens = [s \in Sessions |-> NewSurfaceGenerator]
    /\ g_lastProcessedEvent = FALSE
    /\ last = NoCall
    /\ calls = 0
    /\ plan = "none"
    /\ parser = Parser3GM
    /\ g_primitiveFlags = 0
    /\ lineProcessor = LineProcessor
    /\ animationSystem = AnimationSystem

NextSurface ==
    \/ DoInitialize("A")
    \/ DoCleanup("A")
    \/ DoGetOrCreateSurface("A")

SpecSurface == Init /\ [][NextSurface]_vars

(***************************************************************************)
(* The surface table of one session.                                       *)
(***************************************************************************)
ActiveIds(g) == {i \in DOMAIN g.surfaceTable : IsActive(g.surfaceTable[i])}

KeyOf(e) == <<e.primitiveType, e.textureID, e.flags>>

UniqueKeys(g) ==
    \A i, j \in ActiveIds(g) :
        i # j => KeyOf(g.surfaceTable[i]) # KeyOf(g.surfaceTable[j])

\* C1: after any sequence of GetOrCreateSurface calls on an initialized table
\* no two active surfaces carry the same (primitive_type, texture_id, flags)
\* key, and repeating a successful call with the same key returns the same
\* surface id without allocating a new surface.
C1_OneSurfacePerKey ==
    [][ (gens'["A"].systemInitialized /\ ~Stopped(gens'["A"])) =>
          /\ UniqueKeys(gens'["A"])
          /\ ( /\ last.op = "GetOrCreateSurface" /\ last'.op = "GetOrCreateSurface"
               /\ last.ret # 0 /\ last'.key = last.key )
             => ( /\ last'.ret = last.ret
                  /\ gens'["A"].nextSurfaceID = gens["A"].nextSurfaceID ) ]_vars

\* C8: GetOrCreateSurface with texture_id >= max_textures or texture_id < -1
\* fails with InvalidTexture (800) and leaves the surface table unchanged.
C8_InvalidTextureLeavesTable ==
    [][ ( /\ last'.op = "GetOrCreateSurface"
          /\ gens["A"].systemInitialized
          /\ (last'.key[2] >= gens["A"].maxTextures \/ last'.key[2] < -1) )
        => ( /\ last'.ret = 0
             /\ \E i \in DOMAIN last'.posted : last'.posted[i] = EvInvalidTexture
             /\ gens' = gens ) ]_vars

(***************************************************************************)
(* Two parsing sessions, each with a surface table of its own, in one      *)
(* process.  The error flag is the one global of the error handler.        *)
(***************************************************************************)
SessionTexIds == {-1, 0, MaxTexturesArg}

SessionInitialize(s) ==
    /\ calls < SessionSteps
    /\ InitializeStep(s)
    /\ calls' = calls + 1 /\ UNCHANGED <<plan, parser, chunkVars>>

SessionCleanup(s) ==
    /\ calls < SessionSteps
    /\ CleanupStep(s)
    /\ calls' = calls + 1 /\ UNCHANGED <<plan, parser, chunkVars>>

SessionGetOrCreateSurface(s) ==
    /\ calls < SessionSteps
    /\ \E tex \in SessionTexIds : GetOrCreateSurfaceStep(s, TriangleStrip, tex, 0)
    /\ calls' = calls + 1 /\ UNCHANGED <<plan, parser, chunkVars>>

NextSessions ==
    \E s \in Sessions :
        \/ SessionInitialize(s)
        \/ SessionCleanup(s)
        \/ SessionGetOrCreateSurface(s)

SpecSessions == Init /\ [][NextSessions]_vars

\* what a call on session s would return now, for every key and every
\* outcome of the read past the first-entry table
Answers(g, err) ==
    [k \in {TriangleStrip} \X SessionTexIds \X {0}, oobv \in {-1, 0} |->
        GetOrCreateSurface([g |-> g, err |-> err, posted |-> <<>>], k[1], k[2], k[3], oobv)[2]]

\* C7: two surface tables created independently do not affect each other;
\* the surface id a session returns for a key is determined solely by the
\* calls made on that session's own table: a call on the other session's
\* table changes neither this session's table nor any answer it would give.
C7_SessionsIndependent ==
    [][ \A s \in Sessions :
          ( /\ last'.session # s
            /\ \A t \in Sessions : gens[t].systemInitialized /\ ~Stopped(gens[t]) )
          => ( /\ gens'[s] = gens[s]
               /\ Answers(gens'[s], g_lastProcessedEvent') = Answers(gens[s], g_lastProcessedEvent) )
      ]_vars

(***************************************************************************)
(* The capacity run: a table with the default capacities receives          *)
(* GetOrCreateSurface calls, each with a key not used before.              *)
(***************************************************************************)
Plans == {"spread", "chained"}

ChainedTextures == 40

\* the n-th fresh key of a plan; texture ids stay in -1 .. max_textures-2
FreshKey(p, n) ==
    IF p = "spread"
    THEN <<TriangleStrip, (n % (DefaultMaxTextures - 1)) - 1, n \div (DefaultMaxTextures - 1)>>
    ELSE <<QuadStrip, (n % ChainedTextures) - 1, n \div ChainedTextures>>

\* calls number lo .. hi of the plan, one after the other
RECURSIVE FillRange(_, _, _, _)
FillRange(m, p, lo, hi) ==
    IF lo > hi THEN m
    ELSE IF lo = hi
    THEN GetOrCreateSurface(m, FreshKey(p, lo)[1], FreshKey(p, lo)[2], FreshKey(p, lo)[3], -1)[1]
    ELSE LET mid == (lo + hi) \div 2
         IN  \* binding the first half as a set element evaluates it first
             CHOOSE r \in {FillRange(x, p, mid + 1, hi) : x \in {FillRange(m, p, lo, mid)}} : TRUE

CapacityInitialize ==
    /\ plan = "none"
    /\ \E p \in Plans : plan' = p
    /\ gens' = [gens EXCEPT !["A"] = Initialize(@, DefaultMaxTextures, DefaultMaxSurfaces)]
    /\ last' = [op |-> "Initialize", session |-> "A",
                key |-> <<DefaultMaxTextures, DefaultMaxSurfaces, 0>>, ret |-> 1, posted |-> <<>>]
    /\ UNCHANGED <<g_lastProcessedEvent, calls, parser, chunkVars>>

\* the first n calls of the plan in one go
CapacityFill ==
    /\ plan \in Plans
    /\ calls = 0
    /\ \E n \in FillSizes :
         LET k == FreshKey(plan, n)
             f == FillRange(Machine("A"), plan, 1, n - 1)
             r == GetOrCreateSurface(f, k[1], k[2], k[3], -1)
         IN  /\ gens' = [gens EXCEPT !["A"] = r[1].g]
             /\ g_lastProcessedEvent' = r[1].err
             /\ last' = [op |-> "GetOrCreateSurface", session |-> "A", key |-> k,
                         ret |-> r[2], posted |-> r[1].posted]
             /\ calls' = n
    /\ UNCHANGED <<plan, parser, chunkVars>>

CapacityCall ==
    /\ plan \in Plans
    /\ calls >= FillFar
    /\ calls < CapacityCalls
    /\ ~Stopped(gens["A"])
    /\ LET k == FreshKey(plan, calls + 1)
           r == GetOrCreateSurface(Machine("A"), k[1], k[2], k[3], -1)
       IN  /\ gens' = [gens EXCEPT !["A"] = r[1].g]
           /\ g_lastProcessedEvent' = r[1].err
           /\ last' = [op |-> "GetOrCreateSurface", session |-> "A", key |-> k,
                       ret |-> r[2], posted |-> r[1].posted]
    /\ calls' = calls + 1
    /\ UNCHANGED <<plan, parser, chunkVars>>

NextCapacity == CapacityInitialize \/ CapacityFill \/ CapacityCall

SpecCapacity == Init /\ [][NextCapacity]_vars

ProcessorKinds == {"Dot2", "FDot"}

\* what the undefined accesses of one call turn out to do
UbChoices ==
    {[byte |-> 0, crash |-> FALSE, garbage |-> 0],
     [byte |-> 127, crash |-> FALSE, garbage |-> 7],
     [byte |-> 0, crash |-> TRUE, garbage |-> 0]}

NoUb == [byte |-> 0, crash |-> FALSE, garbage |-> 0]

PMachine(ub) ==
    [p |-> parser, err |-> g_lastProcessedEvent, posted |-> <<>>, log |-> <<>>,
     trace |-> <<>>, scanRet |-> "none", ub |-> ub, primitiveFlags |-> g_primitiveFlags,
     triangles |-> <<>>]

\* the state after a call that returned r = <<machine, returned value>>
Done(op, f, r) ==
    /\ calls < ParserSteps
    /\ calls' = calls + 1
    /\ parser' = r[1].p
    /\ g_lastProcessedEvent' = r[1].err
    /\ last' = [op |-> op, session |-> "A", file |-> f, ret |-> r[2], posted |-> r[1].posted,
                log |-> r[1].log, trace |-> r[1].trace, scanRet |-> r[1].scanRet]
    /\ g_primitiveFlags' = r[1].primitiveFlags
    /\ UNCHANGED <<gens, plan, lineProcessor, animationSystem>>

DoRegisterChunkProcessor ==
    /\ ~parser.crashed
    /\ \E t \in ProcessorKinds :
         Done("RegisterChunkProcessor", t,
              <<[PMachine(NoUb) EXCEPT !.p = RegisterChunkProcessor(@, t)], TRUE>>)

DoRegisterDefaultProcessors ==
    /\ ~parser.crashed
    /\ Done("RegisterDefaultProcessors", "none",
            <<[PMachine(NoUb) EXCEPT !.p = RegisterDefaultProcessors(@)], TRUE>>)

DoParseFile ==
    /\ ~parser.crashed
    /\ \E f \in FileNames, ub \in UbChoices :
         Done("ParseFile", f, ParseFile(PMachine(ub), f))

DoParseBuffer ==
    /\ ~parser.crashed
    /\ \E f \in FileNames, ub \in UbChoices :
         Done("ParseBuffer", f, ParseBuffer(PMachine(ub), f, FileSize(f)))

DoReset ==
    /\ ~parser.crashed
    /\ Done("Reset", "none", <<ParserReset(PMachine(NoUb)), TRUE>>)

Next ==
    \/ DoRegisterChunkProcessor
    \/ DoRegisterDefaultProcessors
    \/ DoParseFile
    \/ DoParseBuffer
    \/ DoReset

Spec == Init /\ [][Next]_vars

ParseOps == {"ParseFile", "ParseBuffer"}

\* the last call was a parse that got as far as the scan and did not die
Scanned == last.op \in ParseOps /\ last.scanRet # "none" /\ ~parser.crashed

\* the headers of the chunks a file was built from, up to its End chunk
RECURSIVE UpToEnd(_)
UpToEnd(chunks) ==
    IF chunks = <<>> THEN <<>>
    ELSE IF IsEndMarker(ChunkHeader(Head(chunks).id, Head(chunks).size))
    THEN <<ChunkHeader(Head(chunks).id, Head(chunks).size)>>
    ELSE <<ChunkHeader(Head(chunks).id, Head(chunks).size)>> \o UpToEnd(Tail(chunks))

IsKnown(h) == h.type # "Unknown"

HasUnknown(f) == \E i \in DOMAIN UpToEnd(FileParts(f).chunks) : ~IsKnown(UpToEnd(FileParts(f).chunks)[i])

\* C2: a chunk with an id outside the known-id table does not stop the scan
\* and does not fail the decode: the scan goes on over the following chunks
\* up to the End chunk (so the scan and the structure check succeed).
C2_UnknownChunkSkipped ==
    (Scanned /\ HasUnknown(last.file)) =>
        /\ last.scanRet = "true"
        /\ SelectSeq(parser.chunkReader.discoveredChunks, IsKnown)
             = SelectSeq(UpToEnd(FileParts(last.file).chunks), IsKnown)
        /\ \A i \in DOMAIN last.log : last.log[i] # "Invalid chunk structure"

\* the offset of the i-th scanned header in the buffer
RECURSIVE HeaderOffset(_, _, _)
HeaderOffset(start, chunks, i) ==
    IF i = 1 THEN start ELSE HeaderOffset(start, chunks, i - 1) + GetTotalSize(chunks[i - 1])

\* C3: for every header in the list the scan produced, GetChunkData(header)
\* is the payload of that header, the bytes at the header's own offset + 8,
\* wherever the reader's current offset stands (here: after the scan).
C3_ChunkDataIsOwnPayload ==
    Scanned =>
        \A i \in DOMAIN parser.chunkReader.discoveredChunks :
            parser.chunkReader.discoveredChunks[i].size > 0 =>
                GetChunkData(parser.chunkReader, parser.chunkReader.discoveredChunks[i])
                  = [buf |-> parser.chunkReader.fileData,
                     off |-> HeaderOffset(parser.fileHeader.chunkOffset,
                                          parser.chunkReader.discoveredChunks, i) + 8]

\* C4: after a successful Dot2 or FDot decode of N vertices the vertex buffer
\* holds exactly N*8+1 floats, the last one is the vertex terminator, and
\* the terminator store at index N*8 landed inside the buffer.
C4_TerminatorInsideBuffer ==
    ( /\ last.op \in ParseOps /\ ~parser.crashed /\ last.trace # <<>>
      /\ last.trace[Len(last.trace)].ok )
    => LET n == last.trace[Len(last.trace)].n
       IN  /\ VecLen(parser.parsedShape.vertexBuffer) = n * 8 + 1
           /\ parser.parsedShape.vertexBuffer[n * 8] = VertexTerminator
           /\ ~parser.wroteOutside

\* the kinds of the scanned chunks that are dispatched, in file order
Dispatchable(chunks) == SelectSeq(chunks, LAMBDA h : h.type \in ProcessorKinds)

\* C5: when a file is parsed the dispatcher has a decoder for each known
\* chunk kind and invokes it exactly once for every scanned chunk of that
\* kind, in file order; decoders registered before ParseFile are the ones
\* used.
C5_RegisteredDecodersDispatched ==
    [][ (last'.op = "ParseFile" /\ parser.chunkProcessors = ProcessorKinds
         /\ last'.scanRet = "true" /\ ~parser'.crashed)
        => /\ parser'.chunkProcessors = parser.chunkProcessors
           /\ [i \in DOMAIN last'.trace |-> last'.trace[i].type]
                = [i \in DOMAIN Dispatchable(parser'.chunkReader.discoveredChunks) |->
                     Dispatchable(parser'.chunkReader.discoveredChunks)[i].type] ]_vars

\* C6: when ParseBuffer returns failure the shape the parser exposes is
\* empty: nothing written by chunks decoded before the failure remains.
C6_FailureLeavesEmptyShape ==
    [][ ( /\ last'.op = "ParseBuffer" /\ last'.ret = FALSE /\ ~parser'.crashed
          /\ parser.parsedShape = ShapeData )
        => parser'.parsedShape = ShapeData ]_vars

\* C10: if a chunk header read by the scan declares a footprint 8+size that
\* extends past the end of the buffer, ScanAllChunks reports failure, also
\* when earlier chunks were read successfully.
C10_OverrunFailsScan ==
    ( /\ Scanned
      /\ \E i \in DOMAIN last.log : last.log[i] = "Chunk extends past end of file" )
    => last.scanRet = "false"

\* the chunks fit one after the other into room bytes, each taking 8 + size
\* bytes as an unbounded integer (a negative size stands for one >= 2^31)
RECURSIVE Fit(_, _)
Fit(chunks, room) ==
    \/ chunks = <<>>
    \/ /\ Head(chunks).size >= 0
       /\ Head(chunks).size <= room - 8
       /\ Fit(Tail(chunks), room - 8 - Head(chunks).size)

\* C11: for every buffer and every 32-bit size field, sizes near 2^32
\* included, the sum of 8 + size over the chunks the scan emitted does not
\* exceed the input size and no emitted chunk extends past the buffer's end.
C11_ScanWithinBuffer ==
    Scanned => Fit(parser.chunkReader.discoveredChunks, parser.chunkReader.fileSize)

\* the first word of a file, little-endian
FirstWord(f) == ReadLittleEndian32(f, 0, NoUb)

\* the class of a buffer by its first word w: <<type, chunk offset>>
Classify(w) ==
    IF w = Magic3DGM THEN <<"FullHeader", 12>>
    ELSE IF VersionMin <= w /\ w <= VersionMax THEN <<"VersionOnly", 4>>
    ELSE <<"NoHeader", 0>>

\* C12: DetectHeader classifies a buffer by its little-endian first word:
\* FullHeader with chunk offset 12 for the magic, VersionOnly with offset 4
\* for a word in the version range, NoHeader with offset 0 otherwise; a
\* buffer that starts with the magic and is shorter than 12 bytes is
\* rejected as a bad header.
C12_HeaderClassified ==
    (last.op \in ParseOps /\ FileSize(last.file) >= 8)
    => IF FirstWord(last.file) = Magic3DGM /\ FileSize(last.file) < 12
       THEN \E i \in DOMAIN last.log : last.log[i] = "Invalid file header"
       ELSE <<parser.fileHeader.type, parser.fileHeader.chunkOffset>>
              = Classify(FirstWord(last.file))

(***************************************************************************)
(* The chunk decoders called directly, each with a payload of its own      *)
(* kind: the processors of Prim and Dot2 chunks on the parser's shape, the *)
(* line processor and the animation system.                                *)
(***************************************************************************)
ChunkSteps == 2

\* the process died or hangs in a call
Dead ==
    \/ parser.crashed \/ lineProcessor.crashed \/ lineProcessor.hung
    \/ animationSystem.crashed

LMachine(ub) ==
    [lp |-> lineProcessor, st |-> NoState, err |-> g_lastProcessedEvent, posted |-> <<>>,
     log |-> <<>>, created |-> <<>>, ub |-> ub]

AMachine(ub) ==
    [as |-> animationSystem, err |-> g_lastProcessedEvent, posted |-> <<>>, log |-> <<>>,
     ub |-> ub]

\* the state after ProcessChunk of a chunk processor returned r
ProcessorDone(kind, f, r) ==
    /\ calls' = calls + 1
    /\ parser' = r[1].p
    /\ g_lastProcessedEvent' = r[1].err
    /\ g_primitiveFlags' = r[1].primitiveFlags
    /\ last' = [op |-> "ProcessChunk", session |-> "A", kind |-> kind, file |-> f,
                ret |-> r[2], posted |-> r[1].posted, log |-> r[1].log,
                triangles |-> r[1].triangles]
    /\ UNCHANGED <<gens, plan, lineProcessor, animationSystem>>

\* the state after ProcessLineChunk returned r
LineDone(f, r) ==
    /\ calls' = calls + 1
    /\ lineProcessor' = r[1].lp
    /\ g_lastProcessedEvent' = r[1].err
    /\ last' = [op |-> "ProcessLineChunk", session |-> "A", kind |-> "Line", file |-> f,
                ret |-> r[2], posted |-> r[1].posted, log |-> r[1].log,
                created |-> r[1].created, st |-> r[1].st]
    /\ UNCHANGED <<gens, plan, parser, g_primitiveFlags, animationSystem>>

\* the state after ProcessSoPFChunk or ProcessFPosChunk returned r
AnimationDone(op, kind, f, r) ==
    /\ calls' = calls + 1
    /\ animationSystem' = r[1].as
    /\ g_lastProcessedEvent' = r[1].err
    /\ last' = [op |-> op, session |-> "A", kind |-> kind, file |-> f, ret |-> r[2],
                posted |-> r[1].posted, log |-> r[1].log]
    /\ UNCHANGED <<gens, plan, parser, g_primitiveFlags, lineProcessor>>

DoPrimProcessChunk ==
    /\ calls < ChunkSteps /\ ~Dead
    /\ \E f \in PrimPayloads :
         ProcessorDone("Prim", f,
                       PrimProcessChunk(PMachine(NoUb), ChunkHeader(PrimId, FileSize(f)),
                                        [buf |-> f, off |-> 0]))

DoDot2ProcessChunk ==
    /\ calls < ChunkSteps /\ ~Dead
    /\ \E f \in Dot2Payloads, ub \in UbChoices :
         ProcessorDone("Dot2", f,
                       Dot2ProcessChunk(PMachine(ub), ChunkHeader(Dot2Id, FileSize(f)),
                                        [buf |-> f, off |-> 0]))

DoProcessLineChunk ==
    /\ calls < ChunkSteps /\ ~Dead
    /\ \E f \in LinePayloads, ub \in UbChoices :
         LineDone(f, ProcessLineChunk(LMachine(ub), [buf |-> f, off |-> 0], FileSize(f)))

DoProcessSoPFChunk ==
    /\ calls < ChunkSteps /\ ~Dead
    /\ \E f \in SoPFPayloads, ub \in UbChoices :
         AnimationDone("ProcessSoPFChunk", "soPF", f,
                       ProcessSoPFChunk(AMachine(ub), [buf |-> f, off |-> 0], FileSize(f)))

DoProcessFPosChunk ==
    /\ calls < ChunkSteps /\ ~Dead
    /\ \E f \in FPosPayloads, ub \in UbChoices :
         AnimationDone("ProcessFPosChunk", "FPos", f,
                       ProcessFPosChunk(AMachine(ub), [buf |-> f, off |-> 0], FileSize(f)))

NextChunks ==
    \/ DoPrimProcessChunk
    \/ DoDot2ProcessChunk
    \/ DoProcessLineChunk
    \/ DoProcessSoPFChunk
    \/ DoProcessFPosChunk

SpecChunks == Init /\ [][NextChunks]_vars

\* bit k of the word w
Bit(w, k) == (w \div (2 ^ k)) % 2 = 1

\* the kinds of chunk whose decoding sets bit k of shape_flags
KindsOfBit(k) ==
    CASE k = 2 -> {"Prim"} [] k = 3 -> {"Line"} [] k = 7 -> {"soPF", "FPos"} [] OTHER -> {}

\* C13: a decode sets shape_flags bit 2 exactly when it decoded a Prim
\* chunk, bit 3 exactly when it decoded a Line chunk and bit 7 exactly when
\* it consumed a soPF or FPos chunk: after a decoder returned success the
\* bit of its kind is set, and a bit that was clear is set by no other call.
C13_ShapeFlagBits ==
    [][ \A k \in {2, 3, 7} :
          /\ (last'.ret = TRUE /\ ~Dead' /\ last'.kind \in KindsOfBit(k))
               => Bit(parser'.parsedShape.shapeFlags, k)
          /\ (Bit(parser'.parsedShape.shapeFlags, k) /\ ~Bit(parser.parsedShape.shapeFlags, k))
               => (last'.ret = TRUE /\ last'.kind \in KindsOfBit(k)) ]_vars

\* the last call was ProcessChunk of the decoder of kind on payload f, and
\* it returned
Decoding(kind, f) ==
    last.op = "ProcessChunk" /\ last.kind = kind /\ last.file = f /\ ~Dead

\* C14: decoding a Prim chunk whose payload is the single token EndMarker
\* (0x6000) succeeds and leaves the shape with 0 primitives.
C14_EndMarkerOnly ==
    Decoding("Prim", "primEnd")
        => last.ret = TRUE /\ VecLen(parser.parsedShape.primitiveBuffer) = 0

\* C15: decoding a Dot2 chunk whose payload is the 8-byte parameter block
\* alone succeeds, leaves vertex_count = 0 and a vertex buffer that holds
\* the terminator and nothing else.
C15_Dot2EmptySucceeds ==
    Decoding("Dot2", "dot2Zero")
        => /\ last.ret = TRUE
           /\ parser.parsedShape.vertexCount = 0
           /\ VecLen(parser.parsedShape.vertexBuffer) = 1
           /\ parser.parsedShape.vertexBuffer[0] = VertexTerminator

\* token k of the payload f
TokenOf(f, k) == Token([buf |-> f, off |-> 0], k, NoUb)

\* the payload's first type token is neither a primitive kind nor a control
\* token
UnsupportedPrimitive(f) ==
    FileSize(f) >= 2 /\ ~IsValidPrimitiveType(TokenOf(f, 0))

\* the payload starts a triangle strip of TokenOf(f, 1) indices and ends
\* before the last of them
TruncatedPrimitive(f) ==
    /\ FileSize(f) >= 4
    /\ TokenOf(f, 0) = TriangleStrip
    /\ 2 + TokenOf(f, 1) > FileSize(f) \div 2

\* C16: the Prim decoder never reports success for a payload in which it
\* reads a type token that is no primitive kind and no control token, nor
\* for a payload that ends in the middle of a primitive's data.
C16_MalformedPrimFails ==
    \A f \in PrimPayloads :
        (Decoding("Prim", f) /\ (UnsupportedPrimitive(f) \/ TruncatedPrimitive(f)))
            => last.ret = FALSE

\* the triangle list of the strip s[0 .. n-1] that starts at token 2 of the
\* payload f: triangle i is (s[i], s[i+1], s[i+2]), its first two indices
\* swapped when i is odd
StripTriangles(f, n) ==
    [j \in 0 .. (3 * (n - 2)) - 1 |->
        TokenOf(f, 2 + (j \div 3) +
                   (IF (j \div 3) % 2 = 1 /\ j % 3 < 2 THEN 1 - (j % 3) ELSE j % 3))]

\* the payload is one complete triangle strip of at least 3 indices
WholeStrip(f) ==
    /\ FileSize(f) >= 4
    /\ TokenOf(f, 0) = TriangleStrip
    /\ TokenOf(f, 1) >= 3
    /\ 2 + TokenOf(f, 1) <= FileSize(f) \div 2

\* C17: for a TriangleStrip of n >= 3 indices, decoded into an empty shape,
\* the decoder leaves n - 2 triangles in the primitive buffer of the shape,
\* the odd ones with their first two indices swapped.
C17_StripExpansion ==
    \A f \in PrimPayloads :
        (Decoding("Prim", f) /\ WholeStrip(f) /\ calls = 1)
            => /\ last.ret = TRUE
               /\ parser.parsedShape.primitiveBuffer = StripTriangles(f, TokenOf(f, 1))

\* token k of the Line payload f, in the byte order the decoder reads it
LineTokenOf(f, k) == LittleToBigEndian16(TokenOf(f, k))

\* the type a surface made from a special line token carries
CanonicalType(type) == IF type = QuadStripInput THEN QuadStrip ELSE PointSprite

\* C18: a Line chunk that starts with the type token LineStrip (28422) or
\* QuadStripInput (18189) and holds no other one decodes successfully and
\* emits exactly one surface, of the converted type (21251 resp. 18190) and
\* with flags 0; the stream 18189, 3, a, b, c, 0x6000, 0x7000 is such a chunk.
C18_SpecialLineSurface ==
    \A f \in {"lineQuad", "lineStrip"} :
        (last.op = "ProcessLineChunk" /\ last.file = f /\ ~Dead)
            => /\ last.ret = TRUE
               /\ Len(last.created) = 1
               /\ last.created[1].primitiveType = CanonicalType(LineTokenOf(f, 0))
               /\ last.created[1].flags = 0

\* the 32-bit header field at byte i of the payload f
FieldOf(f, i) == ReadLittleEndian32(f, i, NoUb)

\* 16 + data_size <= chunk_size over the integers; a negative FieldOf stands
\* for a field of 2^31 or more, which no payload of the model holds
SoPFFits(f) ==
    FileSize(f) >= 16 /\ FieldOf(f, 12) >= 0 /\ 16 + FieldOf(f, 12) <= FileSize(f)

\* position_data_size = frame_count * 4 and 16 + position_data_size <=
\* chunk_size over the integers
FPosFits(f) ==
    /\ FileSize(f) >= 16
    /\ FieldOf(f, 0) >= 0 /\ FieldOf(f, 0) < 536870912
    /\ FieldOf(f, 12) = FieldOf(f, 0) * 4
    /\ 16 + FieldOf(f, 12) <= FileSize(f)

\* C19: animation ingest never reads past the chunk payload: a soPF payload
\* is accepted only if 16 + data_size <= chunk_size, an FPos payload only if
\* position_data_size = frame_count * 4 and 16 + position_data_size <=
\* chunk_size, computed without wrap-around; an accepted chunk is stored with
\* exactly data_size bytes resp. frame_count floats.
C19_AnimationWithinPayload ==
    /\ ~animationSystem.readOutside /\ ~animationSystem.crashed
    /\ \A f \in SoPFPayloads :
         (last.op = "ProcessSoPFChunk" /\ last.file = f /\ last.ret = TRUE)
             => /\ SoPFFits(f)
                /\ Len(animationSystem.sopfChunks[Len(animationSystem.sopfChunks)].propertyData)
                     = FieldOf(f, 12)
    /\ \A f \in FPosPayloads :
         (last.op = "ProcessFPosChunk" /\ last.file = f /\ last.ret = TRUE)
             => /\ FPosFits(f)
                /\ Len(animationSystem.fposChunks[Len(animationSystem.fposChunks)].positionData)
                     = FieldOf(f, 0) * 4

(***************************************************************************)
(* The surface table with its lookup called directly: GetSurfaceHash is a  *)
(* public member of SurfaceGenerator.                                       *)
(***************************************************************************)
GetSurfaceHashStep(s, pt, tex, fl) ==
    /\ ~Stopped(gens[s])
    /\ \E oobv \in OobReadValues(gens[s]) :
          LET r == GetSurfaceHash(Machine(s), pt, tex, fl, oobv)
          IN  /\ gens' = [gens EXCEPT ![s] = r[1].g]
              /\ g_lastProcessedEvent' = r[1].err
              /\ last' = [op |-> "GetSurfaceHash", session |-> s, key |-> <<pt, tex, fl>>,
                          ret |-> r[2], posted |-> r[1].posted]

DoGetSurfaceHash(s) ==
    /\ \E pt \in PrimTypes, tex \in TexIds, fl \in FlagVals : GetSurfaceHashStep(s, pt, tex, fl)
    /\ UNCHANGED <<calls, plan, parser, chunkVars>>

NextHash ==
    \/ DoInitialize("A")
    \/ DoCleanup("A")
    \/ DoGetOrCreateSurface("A")
    \/ DoGetSurfaceHash("A")

SpecHash == Init /\ [][NextHash]_vars

\* C20: GetSurfaceHash changes no state: for every argument triple, texture
\* ids out of range and misses included, the surface table, the chains, the
\* allocation counters and the error state are after the call what they
\* were before it.
C20_GetSurfaceHashReadOnly ==
    [][ last'.op = "GetSurfaceHash"
          => (gens' = gens /\ g_lastProcessedEvent' = g_lastProcessedEvent) ]_vars

\* the part of C20 about the table: a lookup that returns leaves the surface
\* table, the chains and the counters alone
GetSurfaceHashKeepsTable ==
    [][ (last'.op = "GetSurfaceHash" /\ ~Stopped(gens'["A"])) => gens' = gens ]_vars

(***************************************************************************)
(* The byte swaps called on their own: every word whose four bytes come    *)
(* from SwapBytes, and the self-test ValidateAlgorithms.                   *)
(***************************************************************************)
SwapBytes == {0, 1, 18, 52, 86, 120, 127, 128, 255}

SwapInputs == {Word32((b3 * 256) + b2, (b1 * 256) + b0) : b3, b2, b1, b0 \in SwapBytes}

\* the table of test cases of ValidateAlgorithms: 0xFF00FF00 is the word
\* -16711936, 0xFFFFFFFF the word -1
TestCases ==
    << [input |-> 305419896, expected |-> 2018915346],
       [input |-> 16909060,  expected |-> 67305985],
       [input |-> -16711936, expected |-> 16711935],
       [input |-> 0,         expected |-> 0],
       [input |-> -1,        expected |-> -1] >>

\* allPassed
ValidateAlgorithms ==
    \A i \in DOMAIN TestCases : ApplyComplexByteSwap(TestCases[i].input) = TestCases[i].expected

\* the functions are pure: one call per behaviour reaches every result
DoApplyComplexByteSwap ==
    /\ calls = 0
    /\ calls' = 1
    /\ \E v \in SwapInputs :
          last' = [op |-> "ApplyComplexByteSwap", session |-> "A", input |-> v,
                   ret |-> ApplyComplexByteSwap(v),
                   again |-> ApplyComplexByteSwap(ApplyComplexByteSwap(v))]
    /\ UNCHANGED <<gens, g_lastProcessedEvent, plan, parser, chunkVars>>

DoValidateAlgorithms ==
    /\ calls = 0
    /\ calls' = 1
    /\ last' = [op |-> "ValidateAlgorithms", session |-> "A", input |-> 0,
                ret |-> ValidateAlgorithms, again |-> 0]
    /\ UNCHANGED <<gens, g_lastProcessedEvent, plan, parser, chunkVars>>

NextSwap ==
    \/ DoApplyComplexByteSwap
    \/ DoValidateAlgorithms

SpecSwap == Init /\ [][NextSwap]_vars

\* C21: ApplyComplexByteSwap, in 32-bit unsigned arithmetic, equals the
\* plain byte reversal LittleToBigEndian32 on every input, applying it twice
\* gives the input back, and the five validated vectors map to their
\* byte-reversed values (ValidateAlgorithms returns true).
C21_ComplexSwapIsByteReversal ==
    /\ last.op = "ApplyComplexByteSwap"
         => /\ last.ret = LittleToBigEndian32(last.input)
            /\ last.ret = Word32((Lo16(last.input) % 256) * 256 + (Lo16(last.input) \div 256),
                                 (Hi16(last.input) % 256) * 256 + (Hi16(last.input) \div 256))
            /\ last.again = last.input
    /\ last.op = "ValidateAlgorithms" => last.ret = TRUE

\* the swap was applied to a word with all four bytes different and the top
\* bit set
C21_Witness ==
    /\ last.op = "ApplyComplexByteSwap"
    /\ last.input = Word32((255 * 256) + 18, (52 * 256) + 128)
    /\ last.ret = Word32((128 * 256) + 52, (18 * 256) + 255)

\* the value the primitive-flag register is to hold for a kind: 0x00010001,
\* 0x00000201, 0x00000001, 0x00000101
RegisterValue(kind) ==
    CASE kind \in {TriangleStrip, TriangleList}    -> 65537
      [] kind = QuadStrip                          -> 513
      [] kind = PointSprite                        -> 1
      [] kind \in {LineStrip, ComplexPrimitive}    -> 257
      [] OTHER                                     -> 0

\* the first token of the payload is a primitive kind, so the decoder
\* processes it
StartsWithPrimitive(f) ==
    /\ FileSize(f) >= 4 /\ FileSize(f) % 2 = 0
    /\ IsValidPrimitiveType(TokenOf(f, 0)) /\ ~IsControlConstant(TokenOf(f, 0))

\* C22: after the primitive decoder processed a primitive type token, the
\* primitive-flag register holds the table value of the kind the in-stream
\* rewrite gives: 0x00010001 for TriangleStrip and TriangleList, 0x00000201
\* for QuadStrip and a rewritten QuadStripInput, 0x00000001 for PointSprite
\* and a rewritten LineStripAlt, 0x00000101 for LineStrip and
\* ComplexPrimitive.
C22_FlagRegisterAfterRewrite ==
    \A f \in PrimPayloads :
        (Decoding("Prim", f) /\ StartsWithPrimitive(f))
            => g_primitiveFlags = RegisterValue(ConvertInputType(TokenOf(f, 0)))

\* C23: for every texture_id in the accepted range -1 .. max_textures-1 the
\* index texture_id+1 that a lookup (GetSurfaceHash) and an insertion (under
\* GetOrCreateSurface) use lies inside the first-entry table made by
\* Initialize (which the claim takes to have max_textures+1 slots).
C23_FirstEntryIndexInside ==
    [][ ( /\ last'.op \in {"GetSurfaceHash", "GetOrCreateSurface"}
          /\ gens["A"].systemInitialized
          /\ last'.key[2] >= -1 /\ last'.key[2] < gens["A"].maxTextures )
        => last'.key[2] + 1 \in DOMAIN gens["A"].textureHashTable ]_vars

\* the part of C23 that holds: the index of every accepted texture_id but
\* the last, max_textures-1, lies inside the table
FirstEntryIndexInsideButLast ==
    [][ ( /\ last'.op \in {"GetSurfaceHash", "GetOrCreateSurface"}
          /\ gens["A"].systemInitialized
          /\ last'.key[2] >= -1 /\ last'.key[2] < gens["A"].maxTextures - 1 )
        => last'.key[2] + 1 \in DOMAIN gens["A"].textureHashTable ]_vars

\* what a failing call returns: 0xFFFF from GetSurfaceHash, 0 from
\* GetOrCreateSurface
FailureOf(op) == IF op = "GetSurfaceHash" THEN NotFound ELSE 0

\* C24: GetSurfaceHash and GetOrCreateSurface called on a surface table that
\* has not been initialized, or after Cleanup, return failure and access no
\* entry of the first-entry table, the pool or the surface table.  All three
\* are empty then, so an access is one outside a vector's storage: the call
\* must not end in any of the outcomes of such an access.
C24_UninitializedFails ==
    [][ ( /\ last'.op \in {"GetSurfaceHash", "GetOrCreateSurface"}
          /\ ~gens["A"].systemInitialized )
        => ( /\ last'.ret = FailureOf(last'.op)
             /\ ~Stopped(gens'["A"])
             /\ gens' = gens ) ]_vars

(***************************************************************************)
(* The vertex codecs called directly, as VertexProcessor::ProcessVertices  *)
(* calls them: an input buffer, a vertex count it holds, and an output     *)
(* buffer of size floats that the caller filled with fill.                 *)
(***************************************************************************)
MaxVertices == 3

OutputFills == {0, 5}

\* the machine whose output buffer is the caller's
VMachine(ub, size, fill) ==
    [PMachine(ub) EXCEPT !.p.parsedShape.vertexBuffer = [i \in 0 .. size - 1 |-> fill]]

\* the state after a codec returned r; the codecs are pure but for the
\* output buffer, so one call per behaviour reaches every result
VertexDone(op, f, n, size, fill, r) ==
    /\ calls = 0
    /\ calls' = 1
    /\ parser' = r[1].p
    /\ g_lastProcessedEvent' = r[1].err
    /\ last' = [op |-> op, session |-> "A", file |-> f, n |-> n, size |-> size,
                fill |-> fill, ret |-> r[2], posted |-> r[1].posted]
    /\ UNCHANGED <<gens, plan, chunkVars>>

DoConvertPackedToFloatVertices ==
    \E f \in PackedInputs, n \in 1 .. MaxVertices, fill \in OutputFills, ub \in UbChoices :
        /\ 12 * n <= FileSize(f)
        /\ \E size \in {8 * n, 8 * n + 1} :
              VertexDone("ConvertPackedToFloatVertices", f, n, size, fill,
                         ConvertPackedToFloatVertices(VMachine(ub, size, fill),
                                                      [buf |-> f, off |-> 0], n))

DoConvertPackedToFloatVertices3Component ==
    \E f \in PackedInputs, n \in 1 .. MaxVertices, fill \in OutputFills, ub \in UbChoices :
        /\ 12 * n <= FileSize(f)
        /\ \E size \in {8 * n, 8 * n + 1} :
              VertexDone("ConvertPackedToFloatVertices3Component", f, n, size, fill,
                         ConvertPackedToFloatVertices3Component(VMachine(ub, size, fill),
                                                                [buf |-> f, off |-> 0], n))

DoDecrunchDotsVertices ==
    \E f \in CrunchedInputs, n \in 1 .. MaxVertices, fill \in OutputFills, ub \in UbChoices :
        /\ 24 + 6 * n <= FileSize(f)
        /\ \E size \in {8 * n, 8 * n + 1} :
              VertexDone("DecrunchDotsVertices", f, n, size, fill,
                         DecrunchDotsVertices(VMachine(ub, size, fill),
                                              [buf |-> f, off |-> 0], n))

NextVertex ==
    \/ DoConvertPackedToFloatVertices
    \/ DoConvertPackedToFloatVertices3Component
    \/ DoDecrunchDotsVertices

SpecVertex == Init /\ [][NextVertex]_vars

\* the output the packed codec is to leave in a buffer of size floats that
\* held fill: lane k < 3 of vertex i is the float of the byte-swapped word
\* 3i+k, the terminator sits at 8n, every other float is untouched
PackedLayout(f, n, size, fill) ==
    [j \in 0 .. size - 1 |->
        IF j = 8 * n THEN VertexTerminator
        ELSE IF j % 8 < 3
        THEN FloatBits(ApplyComplexByteSwap(FieldOf(f, 4 * ((3 * (j \div 8)) + (j % 8)))))
        ELSE fill]

\* C25: for every N >= 1 and every input of 3N packed words the
\* backward-reference form ConvertPackedToFloatVertices and the sequential
\* form ConvertPackedToFloatVertices3Component write the same values to the
\* same positions: out[8i+k] from in[3i+k] for k in 0..2, the terminator at
\* out[8N], and nothing else; in an output buffer of 8N+1 floats no store
\* leaves the buffer.
C25_PackedFormsAgree ==
    last.op \in {"ConvertPackedToFloatVertices", "ConvertPackedToFloatVertices3Component"}
        => /\ last.ret = TRUE \/ parser.crashed
           /\ parser.parsedShape.vertexBuffer
                = PackedLayout(last.file, last.n, last.size, last.fill)
           /\ last.size = (8 * last.n) + 1 => (~parser.crashed /\ ~parser.wroteOutside)

\* the backward-reference form converted two vertices into a buffer of 17
\* floats
C25_Witness ==
    /\ last.op = "ConvertPackedToFloatVertices"
    /\ last.file = "packTwo" /\ last.n = 2 /\ last.size = 17 /\ last.fill = 5
    /\ last.ret = TRUE
    /\ parser.parsedShape.vertexBuffer[9] = FloatBits(ApplyComplexByteSwap(FieldOf("packTwo", 16)))

\* the output DecrunchDots is to leave: lanes 0..2 of vertex i are the three
\* 16-bit fields of the i-th triple behind the 24 parameter bytes, lanes
\* 3..7 are zero, the terminator sits at 8n
CrunchedLayout(f, n, size) ==
    [j \in 0 .. size - 1 |->
        IF j = 8 * n THEN VertexTerminator
        ELSE IF j % 8 < 3 THEN TokenOf(f, 12 + (3 * (j \div 8)) + (j % 8))
        ELSE 0]

\* C26: the output of DecrunchDots is a function of its input: lanes 0..2 of
\* the record of vertex i are determined by the i-th 6-byte triple that
\* follows the 24-byte parameter block, lanes 3..7 are zero, so two runs on
\* the same payload leave the same buffer.
C26_DecrunchDeterminedByInput ==
    (last.op = "DecrunchDotsVertices" /\ last.size = (8 * last.n) + 1 /\ ~parser.crashed)
        => parser.parsedShape.vertexBuffer = CrunchedLayout(last.file, last.n, last.size)

\* the part of C26 that holds: lanes 3..7 are zero and the terminator is in
\* place
DecrunchUpperLanesZero ==
    (last.op = "DecrunchDotsVertices" /\ last.size = (8 * last.n) + 1 /\ ~parser.crashed)
        => \A j \in 0 .. last.size - 1 :
              (j = 8 * last.n \/ j % 8 >= 3)
                  => parser.parsedShape.vertexBuffer[j]
                       = CrunchedLayout(last.file, last.n, last.size)[j]


\* C27: ProcessLineChunk returns on every finite payload: the token loop of
\* Phase 1 does not spin, also on a type token of 0 and on a payload that
\* never holds 0x6000.
C27_ProcessLineChunkTerminates ==
    last.op = "ProcessLineChunk" => ~lineProcessor.hung

\* the payloads without a type token of 0 at the cursor of Phase 1 do return
LineWithoutZeroTerminates ==
    (last.op = "ProcessLineChunk" /\ last.file # "lineZero") => ~lineProcessor.hung

\* C28: during ProcessLineChunk every store through the output cursor and
\* every load of the work buffer stays inside the 2 * chunk_size bytes
\* allocated for the chunk.
C28_LineBufferAccessInside ==
    last.op = "ProcessLineChunk"
        => /\ ~lineProcessor.wroteOutside
           /\ ~lineProcessor.readOutside
           /\ ~lineProcessor.crashed


(***************************************************************************)
(* A ChunkReader driven directly: constructed over a file at a start       *)
(* offset, then scanned any number of times.                               *)
(***************************************************************************)
ScanSteps == 3             \* operations made on a reader in a run
StartOffsets == {0, 4, 12}

\* the state after the reader operation op returned r = <<machine, value>>
ReaderDone(op, f, start, r) ==
    /\ calls < ScanSteps
    /\ calls' = calls + 1
    /\ parser' = r[1].p
    /\ g_lastProcessedEvent' = r[1].err
    /\ last' = [op |-> op, session |-> "A", file |-> f, start |-> start, ret |-> r[2],
                posted |-> r[1].posted, log |-> r[1].log]
    /\ UNCHANGED <<gens, plan, chunkVars>>

\* a machine whose reader is ChunkReader(data, size, startOffset)
Constructed(m, data, size, startOffset) ==
    IF data = "null"
    THEN PostMsg([m EXCEPT !.p.chunkReader = ChunkReader(data, size, startOffset)],
                 "Null file data in ChunkReader")
    ELSE [m EXCEPT !.p.chunkReader = ChunkReader(data, size, startOffset)]

DoChunkReader ==
    /\ ~parser.crashed
    /\ \E f \in FileNames, start \in StartOffsets :
         ReaderDone("ChunkReader", f, start,
                    <<Constructed(PMachine(NoUb), f, FileSize(f), start), TRUE>>)

DoScanAllChunks ==
    /\ ~parser.crashed
    /\ last.op \in {"ChunkReader", "ScanAllChunks"}
    /\ ReaderDone("ScanAllChunks", last.file, last.start, ScanAllChunks(PMachine(NoUb)))

NextScan == DoChunkReader \/ DoScanAllChunks

SpecScan == Init /\ [][NextScan]_vars

\* C30: ScanAllChunks is repeatable: a scan that follows a scan of the same
\* reader yields the chunk list the scan before it yielded, each scan
\* starting at the start offset the constructor was given.
C30_ScanRepeatable ==
    [][(last.op = "ScanAllChunks" /\ last'.op = "ScanAllChunks" /\ ~parser'.crashed)
          => /\ parser'.chunkReader.discoveredChunks = parser.chunkReader.discoveredChunks
             /\ last'.ret = last.ret]_vars

\* a scan starts where the reader stands: over a buffer of 8 bytes or more
\* it never moves the reader back
ScanNeverRewinds ==
    [][(last'.op = "ScanAllChunks" /\ ~parser'.crashed /\ parser.chunkReader.fileSize >= 8)
          => parser'.chunkReader.currentOffset >= parser.chunkReader.currentOffset]_vars

\* the first scan of a reader does start at the constructor's offset: over
\* a file of well-formed chunks it lists them up to the End chunk
FirstScanListsChunks ==
    (/\ last.op = "ScanAllChunks" /\ calls = 2
     /\ last.file \in {"plain", "trail"} /\ last.start = 0)
        => parser.chunkReader.discoveredChunks = UpToEnd(FileParts(last.file).chunks)


(***************************************************************************)
(* The hash structure of the surface table.                                *)
(***************************************************************************)
\* the hash entries that name the surface id
HashRefs(g, id) ==
    {e \in DOMAIN g.hashCollisionData : g.hashCollisionData[e].surfaceID = id}

\* the first entry of the chain of textureID, as GetSurfaceHash would read
\* it; the slot behind the table holds what was last stored there
ChainHead(g, textureID) ==
    IF textureID + 1 \in DOMAIN g.textureHashTable THEN g.textureHashTable[textureID + 1]
    ELSE g.oobFirst

\* the entries of the chain that starts at entry e, as far as fuel goes
RECURSIVE ChainEntries(_, _, _)
ChainEntries(g, e, fuel) ==
    IF e \notin DOMAIN g.hashCollisionData \/ fuel = 0 THEN {}
    ELSE {e} \cup ChainEntries(g, g.hashCollisionData[e].nextEntry, fuel - 1)

\* the chain that starts at entry e reaches -1 within fuel entries
RECURSIVE ChainEnds(_, _, _)
ChainEnds(g, e, fuel) ==
    IF e = -1 THEN TRUE
    ELSE IF e \notin DOMAIN g.hashCollisionData \/ fuel = 0 THEN FALSE
    ELSE ChainEnds(g, g.hashCollisionData[e].nextEntry, fuel - 1)

\* the slot id is referenced by exactly one hash entry, which sits in the
\* chain of the slot's texture and holds the slot's search key
HashedOnce(g, id) ==
    /\ Cardinality(HashRefs(g, id)) = 1
    /\ \A e \in HashRefs(g, id) :
          /\ e \in ChainEntries(g, ChainHead(g, g.surfaceTable[id].textureID), PoolSize(g))
          /\ g.hashCollisionData[e].searchKey =
                 GetSearchKey(g.surfaceTable[id].primitiveType, g.surfaceTable[id].flags)

\* C29: after any sequence of GetOrCreateSurface calls, successful or
\* failing, every slot 1 .. next_id-1 is active and is referenced by exactly
\* one hash entry, in the chain of its texture and with its search key; every
\* chain is acyclic and ends in -1.
C29_SlotsHashedOnce ==
    (gens["A"].systemInitialized /\ ~Stopped(gens["A"])) =>
        /\ \A id \in 1 .. gens["A"].nextSurfaceID - 1 :
              /\ id \in DOMAIN gens["A"].surfaceTable
              /\ IsActive(gens["A"].surfaceTable[id])
              /\ HashedOnce(gens["A"], id)
        /\ \A t \in -1 .. gens["A"].maxTextures - 1 :
              ChainEnds(gens["A"], ChainHead(gens["A"], t), PoolSize(gens["A"]))

\* a call that returns a new surface id for a texture below max_textures-1
\* leaves that slot active and hashed once
CreatedSlotHashedOnce ==
    [][(/\ last'.op = "GetOrCreateSurface" /\ last'.ret # 0
        /\ gens'["A"].nextSurfaceID > gens["A"].nextSurfaceID
        /\ last'.key[2] \in -1 .. gens["A"].maxTextures - 2
        /\ ~Stopped(gens'["A"]))
          => /\ IsActive(gens'["A"].surfaceTable[last'.ret])
             /\ HashedOnce(gens'["A"], last'.ret)]_vars

====
